---- MODULE Spec2Model ----
(***************************************************************************)
(* Advanced strategy orchestration of AlphaTrade: the OCO monitor          *)
(* (orders/advanced/oco.py), the TWAP scheduler (orders/advanced/twap.py)  *)
(* and the grid monitor (orders/advanced/grid.py), each run against an     *)
(* exchange that fills, cancels and rejects orders on its own schedule.    *)
(*                                                                         *)
(* Three specifications share the module, one per manager: SpecOCO,        *)
(* SpecTWAP and SpecGrid.  Every blocking exchange call of the code is one *)
(* step, so the exchange and the other threads interleave between calls.   *)
(***************************************************************************)
EXTENDS Integers, Sequences, FiniteSets, TLC

VARIABLES
    \* ---- OCO (oco.py) ----
    oco_pc,            \* position of execute_oco_order
    ex_limit,          \* exchange status of the take-profit (limit) leg
    ex_stop,           \* exchange status of the stop leg
    oco_status,        \* oco_result['status']
    monitoring_orders, \* TRUE while oco_id is a key of self.monitoring_orders
    mon_pc,            \* position of the _monitor_oco_order thread
    limit_status,      \* monitor's local limit_status.get('status')
    stop_status,       \* monitor's local stop_status.get('status')
    cancel_pc,         \* position of a cancel_oco_order call
    cancel_result,     \* what the last cancel_oco_order call returned
    cleanup_cancel,    \* history: outcome of the cancel issued by _cleanup_failed_oco
    mon_cancel,        \* history: leg and outcome of the monitor's _cancel_remaining_order
    cancel_attempted,  \* history: legs the current cancel_oco_order call tried to cancel
    oco_cancel_acked,  \* history: a cancel_oco_order call has returned True
    mon_poll_failed,   \* history: the monitor's last step was a poll that raised
    list_pc,           \* position of list_active_oco_orders
    list_result,       \* what the listing returned: "empty" ({}), "live" (the registry)
    list_seen,         \* history: content of the returned object when it was returned
    \* ---- TWAP (twap.py) ----
    twap_pc,            \* position of execute_twap_order / _execute_twap_chunks
    twap_order,         \* the twap_order dict
    chunk_num,          \* loop variable of _execute_twap_chunks (0-based)
    active_twap_orders, \* TRUE while twap_id is a key of self.active_twap_orders
    twap_cancel_result, \* what the last cancel_twap_order call returned
    requested,          \* history: the chunk orders handed to the exchange
    cancel_acked,       \* history: a cancel_twap_order call has returned True
    twap_in,            \* history: the request given to execute_twap_order
    \* ---- Grid (grid.py) ----
    grid_pc,            \* position of execute_grid_strategy
    grid_strategy,      \* the grid_strategy dict
    active_grids,       \* TRUE while grid_id is a key of self.active_grids
    ex_orders,          \* the exchange: every order the strategy placed, by order id
    gmon_pc,            \* position of the _monitor_grid_strategy thread
    gmon_idx,           \* position of its iteration over buy_orders / sell_orders
    order_status,       \* the FILLED order status the monitor is about to handle
    stop_pc,            \* position of a stop_grid_strategy call
    stop_idx,           \* position of its iteration over buy_orders / sell_orders
    stop_size,          \* size of the dict when that iteration began
    stop_result,        \* what the last stop_grid_strategy call returned
    stop_cancel_error,  \* history: a cancel issued by that call raised
    last_counter,       \* history: what the last _place_counter_order did
    stop_acked,         \* history: a stop_grid_strategy call has returned True
    gmon_poll_failed,   \* history: the monitor's last step was a poll that raised
    credits,            \* history: the (buy, sell) trade pairs credited to total_profit
    \* ---- Grid ladder (grid.py, _calculate_grid_levels) ----
    ladder_pc,          \* position of a call of the ladder calculator
    ladder_in,          \* its arguments
    ladder_levels,       \* the levels it returned
    ladder_counter,     \* what _place_counter_order did on the returned ladder
    \* ---- Grid direction (grid.py, the base_side argument) ----
    sided_pc,           \* position of an execute_grid_strategy call given a base_side
    sided_grid,         \* the strategy it built, with its base_side
    sided_orders,       \* the orders that strategy has sent to the exchange
    \* ---- Strategy ids (oco.py, twap.py, grid.py: <KIND>_<int(time.time())>) ----
    reg_clock,          \* int(time.time()): the current clock second
    reg_entries,        \* one manager's registry: id -> the strategy stored under it (0: none)
    reg_tasks           \* the strategies started through the manager: id and task state

listVars == <<list_pc, list_result, list_seen>>

ocoAux == <<oco_cancel_acked, listVars, mon_poll_failed>>

ocoVars == <<oco_pc, ex_limit, ex_stop, oco_status, monitoring_orders, mon_pc,
             limit_status, stop_status, cancel_pc, cancel_result,
             cleanup_cancel, mon_cancel, cancel_attempted, ocoAux>>

twapAux == <<twap_in>>

twapVars == <<twap_pc, twap_order, chunk_num, active_twap_orders,
              twap_cancel_result, requested, cancel_acked, twapAux>>

gridAux == <<stop_acked, gmon_poll_failed>>

gridVars == <<grid_pc, grid_strategy, active_grids, ex_orders, gmon_pc, gmon_idx,
              order_status, stop_pc, stop_idx, stop_size, stop_result,
              stop_cancel_error, last_counter, credits, gridAux>>

sidedVars == <<sided_pc, sided_grid, sided_orders>>

regVars == <<reg_clock, reg_entries, reg_tasks>>

ladderVars == <<ladder_pc, ladder_in, ladder_levels, ladder_counter, sidedVars,
                regVars>>

vars == <<ocoVars, twapVars, gridVars, ladderVars>>

(***************************************************************************)
(* The exchange                                                            *)
(***************************************************************************)

\* Statuses in which an order still rests on the exchange.
OpenStatuses == {"NEW", "PARTIALLY_FILLED"}

\* Outcomes of client.cancel_order on an order in status s: an open order is
\* cancelled, or the call raises (a transient API error); an order that is
\* no longer open makes the call raise.
CancelOutcomes(s) == IF s \in OpenStatuses THEN {"ok", "error"} ELSE {"error"}

\* Exchange status of an order after a cancel call with outcome o.
AfterCancel(s, o) == IF o = "ok" THEN "CANCELED" ELSE s

\* Statuses an open order can move to by trading.
FillSteps(s) ==
    IF s = "NEW" THEN {"PARTIALLY_FILLED", "FILLED"}
    ELSE IF s = "PARTIALLY_FILLED" THEN {"FILLED"}
    ELSE {}

(***************************************************************************)
(* OCO: execute_oco_order                                                  *)
(***************************************************************************)

\* Nothing has been listed.
NoListing == [registered |-> FALSE, status |-> "NONE"]

OcoInit ==
    /\ oco_pc = "idle"
    /\ ex_limit = "NONE"
    /\ ex_stop = "NONE"
    /\ oco_status = "NONE"
    /\ monitoring_orders = FALSE
    /\ mon_pc = "off"
    /\ limit_status = "NONE"
    /\ stop_status = "NONE"
    /\ cancel_pc = "idle"
    /\ cancel_result = "none"
    /\ cleanup_cancel = "none"
    /\ mon_cancel = [leg |-> "none", outcome |-> "none"]
    /\ cancel_attempted = {}
    /\ oco_cancel_acked = FALSE
    /\ mon_poll_failed = FALSE
    /\ list_pc = "idle"
    /\ list_result = "none"
    /\ list_seen = NoListing

\* place_limit_order for the take-profit leg: accepted, or it raises and the
\* error reaches the caller (_cleanup_failed_oco finds nothing to cancel).
OcoPlaceLimit ==
    /\ oco_pc = "idle"
    /\ \E accepted \in BOOLEAN :
          IF accepted
          THEN /\ ex_limit' = "NEW"
               /\ oco_pc' = "limit_placed"
          ELSE /\ ex_limit' = ex_limit
               /\ oco_pc' = "failed_limit"
    /\ UNCHANGED <<ex_stop, oco_status, monitoring_orders, mon_pc, limit_status,
                   stop_status, cancel_pc, cancel_result, cleanup_cancel,
                   mon_cancel, cancel_attempted>>
    /\ UNCHANGED <<twapVars, gridVars, ladderVars, ocoAux>>

\* The stop leg is accepted: the tracking entry is created ACTIVE, registered
\* and the monitor thread is started.
OcoPlaceStopOk ==
    /\ oco_pc = "limit_placed"
    /\ ex_stop' = "NEW"
    /\ oco_status' = "ACTIVE"
    /\ monitoring_orders' = TRUE
    /\ mon_pc' = "poll_limit"
    /\ oco_pc' = "started"
    /\ UNCHANGED <<ex_limit, limit_status, stop_status, cancel_pc, cancel_result,
                   cleanup_cancel, mon_cancel, cancel_attempted>>
    /\ UNCHANGED <<twapVars, gridVars, ladderVars, ocoAux>>

\* The stop leg is accepted and the entry registered, but Thread.start()
\* raises RuntimeError (the interpreter cannot create a thread):
\* _cleanup_failed_oco issues one cancel of each leg, swallows whatever they
\* raise, and the error is re-raised with the entry still registered.
OcoStartThreadFail ==
    /\ oco_pc = "limit_placed"
    /\ oco_status' = "ACTIVE"
    /\ monitoring_orders' = TRUE
    /\ \E ol \in CancelOutcomes(ex_limit), os \in CancelOutcomes("NEW") :
          /\ ex_limit' = AfterCancel(ex_limit, ol)
          /\ ex_stop' = AfterCancel("NEW", os)
          /\ cleanup_cancel' = ol
    /\ oco_pc' = "failed_start"
    /\ UNCHANGED <<mon_pc, limit_status, stop_status, cancel_pc, cancel_result,
                   mon_cancel, cancel_attempted>>
    /\ UNCHANGED <<twapVars, gridVars, ladderVars, ocoAux>>

\* The stop leg is refused: _cleanup_failed_oco issues one cancel of the limit
\* leg, swallows whatever that call raises, and the error is re-raised.
OcoPlaceStopFail ==
    /\ oco_pc = "limit_placed"
    /\ \E o \in CancelOutcomes(ex_limit) :
          /\ ex_limit' = AfterCancel(ex_limit, o)
          /\ cleanup_cancel' = o
    /\ oco_pc' = "failed_stop"
    /\ UNCHANGED <<ex_stop, oco_status, monitoring_orders, mon_pc, limit_status,
                   stop_status, cancel_pc, cancel_result, mon_cancel,
                   cancel_attempted>>
    /\ UNCHANGED <<twapVars, gridVars, ladderVars, ocoAux>>

(***************************************************************************)
(* OCO: the exchange acting on the two legs                                *)
(***************************************************************************)

ExFillLimit ==
    /\ \E s \in FillSteps(ex_limit) : ex_limit' = s
    /\ UNCHANGED <<oco_pc, ex_stop, oco_status, monitoring_orders, mon_pc,
                   limit_status, stop_status, cancel_pc, cancel_result,
                   cleanup_cancel, mon_cancel, cancel_attempted>>
    /\ UNCHANGED <<twapVars, gridVars, ladderVars, ocoAux>>

ExFillStop ==
    /\ \E s \in FillSteps(ex_stop) : ex_stop' = s
    /\ UNCHANGED <<oco_pc, ex_limit, oco_status, monitoring_orders, mon_pc,
                   limit_status, stop_status, cancel_pc, cancel_result,
                   cleanup_cancel, mon_cancel, cancel_attempted>>
    /\ UNCHANGED <<twapVars, gridVars, ladderVars, ocoAux>>

\* A leg is cancelled from outside the engine (the exchange UI, another client).
ExExternalCancel ==
    /\ \/ /\ ex_limit \in OpenStatuses
          /\ ex_limit' = "CANCELED"
          /\ ex_stop' = ex_stop
       \/ /\ ex_stop \in OpenStatuses
          /\ ex_stop' = "CANCELED"
          /\ ex_limit' = ex_limit
    /\ UNCHANGED <<oco_pc, oco_status, monitoring_orders, mon_pc,
                   limit_status, stop_status, cancel_pc, cancel_result,
                   cleanup_cancel, mon_cancel, cancel_attempted>>
    /\ UNCHANGED <<twapVars, gridVars, ladderVars, ocoAux>>

\* Final statuses the exchange gives an order on its own account.
ExchangeEndStatuses == {"EXPIRED", "REJECTED"}

\* The exchange ends an open leg itself: the order expires (a stop whose
\* trigger can no longer be honoured, a reduce-only order with nothing left
\* to reduce) or is rejected after having been accepted.
ExEndLeg ==
    /\ \E s \in ExchangeEndStatuses :
          \/ /\ ex_limit \in OpenStatuses
             /\ ex_limit' = s
             /\ ex_stop' = ex_stop
          \/ /\ ex_stop \in OpenStatuses
             /\ ex_stop' = s
             /\ ex_limit' = ex_limit
    /\ UNCHANGED <<oco_pc, oco_status, monitoring_orders, mon_pc,
                   limit_status, stop_status, cancel_pc, cancel_result,
                   cleanup_cancel, mon_cancel, cancel_attempted>>
    /\ UNCHANGED <<twapVars, gridVars, ladderVars, ocoAux>>

(***************************************************************************)
(* OCO: _monitor_oco_order                                                 *)
(***************************************************************************)

\* self.stop_monitoring is created clear and nothing in the repository sets it.
stop_monitoring == FALSE

MonPollLimit ==
    /\ mon_pc = "poll_limit"
    /\ ~stop_monitoring
    /\ limit_status' = ex_limit
    /\ mon_pc' = "poll_stop"
    /\ UNCHANGED <<oco_pc, ex_limit, ex_stop, oco_status, monitoring_orders,
                   stop_status, cancel_pc, cancel_result, cleanup_cancel,
                   mon_cancel, cancel_attempted>>
    /\ mon_poll_failed' = FALSE
    /\ UNCHANGED <<twapVars, gridVars, ladderVars, oco_cancel_acked, listVars>>

MonPollStop ==
    /\ mon_pc = "poll_stop"
    /\ stop_status' = ex_stop
    /\ mon_pc' = "decide"
    /\ UNCHANGED <<oco_pc, ex_limit, ex_stop, oco_status, monitoring_orders,
                   limit_status, cancel_pc, cancel_result, cleanup_cancel,
                   mon_cancel, cancel_attempted>>
    /\ UNCHANGED <<twapVars, gridVars, ladderVars, ocoAux>>

\* A monitor that gave up on the first poll that raised.
MonPollErrorGivingUp ==
    /\ mon_pc \in {"poll_limit", "poll_stop"}
    /\ mon_pc' = "remove"
    /\ mon_poll_failed' = TRUE
    /\ UNCHANGED <<oco_pc, ex_limit, ex_stop, oco_status, monitoring_orders,
                   limit_status, stop_status, cancel_pc, cancel_result,
                   cleanup_cancel, mon_cancel, cancel_attempted>>
    /\ UNCHANGED <<twapVars, gridVars, ladderVars, oco_cancel_acked, listVars>>

\* get_order_status raises: logged, sleep(10), back to the top of the loop.
MonPollError ==
    /\ mon_pc \in {"poll_limit", "poll_stop"}
    /\ mon_pc' = "poll_limit"
    /\ UNCHANGED <<oco_pc, ex_limit, ex_stop, oco_status, monitoring_orders,
                   limit_status, stop_status, cancel_pc, cancel_result,
                   cleanup_cancel, mon_cancel, cancel_attempted>>
    /\ mon_poll_failed' = TRUE
    /\ UNCHANGED <<twapVars, gridVars, ladderVars, oco_cancel_acked, listVars>>

\* MonDecide with the cancel of the losing leg left out.
MonDecideNoCancel ==
    /\ mon_pc = "decide"
    /\ IF limit_status = "FILLED"
       THEN /\ oco_status' = "LIMIT_FILLED"
            /\ mon_pc' = "remove"
       ELSE IF stop_status = "FILLED"
       THEN /\ oco_status' = "STOP_FILLED"
            /\ mon_pc' = "remove"
       ELSE IF limit_status = "CANCELED" /\ stop_status = "CANCELED"
       THEN /\ oco_status' = "CANCELLED"
            /\ mon_pc' = "remove"
       ELSE /\ mon_pc' = "poll_limit"
            /\ oco_status' = oco_status
    /\ UNCHANGED <<oco_pc, ex_limit, ex_stop, mon_cancel, monitoring_orders,
                   limit_status, stop_status, cancel_pc, cancel_result,
                   cleanup_cancel, cancel_attempted>>
    /\ UNCHANGED <<twapVars, gridVars, ladderVars, ocoAux>>

\* A monitor that takes one CANCELED leg for the cancellation of the OCO.
MonDecideEitherCanceled ==
    /\ mon_pc = "decide"
    /\ IF limit_status = "FILLED"
       THEN \E o \in CancelOutcomes(ex_stop) :
               /\ ex_stop' = AfterCancel(ex_stop, o)
               /\ mon_cancel' = [leg |-> "stop", outcome |-> o]
               /\ oco_status' = "LIMIT_FILLED"
               /\ mon_pc' = "remove"
               /\ ex_limit' = ex_limit
       ELSE IF stop_status = "FILLED"
       THEN \E o \in CancelOutcomes(ex_limit) :
               /\ ex_limit' = AfterCancel(ex_limit, o)
               /\ mon_cancel' = [leg |-> "limit", outcome |-> o]
               /\ oco_status' = "STOP_FILLED"
               /\ mon_pc' = "remove"
               /\ ex_stop' = ex_stop
       ELSE IF limit_status = "CANCELED" \/ stop_status = "CANCELED"
       THEN /\ oco_status' = "CANCELLED"
            /\ mon_pc' = "remove"
            /\ UNCHANGED <<ex_limit, ex_stop, mon_cancel>>
       ELSE /\ mon_pc' = "poll_limit"
            /\ UNCHANGED <<ex_limit, ex_stop, mon_cancel, oco_status>>
    /\ UNCHANGED <<oco_pc, monitoring_orders, limit_status, stop_status,
                   cancel_pc, cancel_result, cleanup_cancel, cancel_attempted>>
    /\ UNCHANGED <<twapVars, gridVars, ladderVars, ocoAux>>

\* The if/elif chain on the two polled statuses.  _cancel_remaining_order
\* swallows a failing cancel.
MonDecide ==
    /\ mon_pc = "decide"
    /\ IF limit_status = "FILLED"
       THEN \E o \in CancelOutcomes(ex_stop) :
               /\ ex_stop' = AfterCancel(ex_stop, o)
               /\ mon_cancel' = [leg |-> "stop", outcome |-> o]
               /\ oco_status' = "LIMIT_FILLED"
               /\ mon_pc' = "remove"
               /\ ex_limit' = ex_limit
       ELSE IF stop_status = "FILLED"
       THEN \E o \in CancelOutcomes(ex_limit) :
               /\ ex_limit' = AfterCancel(ex_limit, o)
               /\ mon_cancel' = [leg |-> "limit", outcome |-> o]
               /\ oco_status' = "STOP_FILLED"
               /\ mon_pc' = "remove"
               /\ ex_stop' = ex_stop
       ELSE IF limit_status = "CANCELED" /\ stop_status = "CANCELED"
       THEN /\ oco_status' = "CANCELLED"
            /\ mon_pc' = "remove"
            /\ UNCHANGED <<ex_limit, ex_stop, mon_cancel>>
       ELSE /\ mon_pc' = "poll_limit"
            /\ UNCHANGED <<ex_limit, ex_stop, mon_cancel, oco_status>>
    /\ UNCHANGED <<oco_pc, monitoring_orders, limit_status, stop_status,
                   cancel_pc, cancel_result, cleanup_cancel, cancel_attempted>>
    /\ UNCHANGED <<twapVars, gridVars, ladderVars, ocoAux>>

\* After the loop: the strategy is deleted from self.monitoring_orders.
MonRemove ==
    /\ mon_pc = "remove"
    /\ monitoring_orders' = FALSE
    /\ mon_pc' = "done"
    /\ UNCHANGED <<oco_pc, ex_limit, ex_stop, oco_status, limit_status,
                   stop_status, cancel_pc, cancel_result, cleanup_cancel,
                   mon_cancel, cancel_attempted>>
    /\ UNCHANGED <<twapVars, gridVars, ladderVars, ocoAux>>

(***************************************************************************)
(* OCO: cancel_oco_order                                                   *)
(***************************************************************************)

\* The registry lookup: an unknown id returns False at once.
CancelOcoCall ==
    /\ cancel_pc = "idle"
    /\ cancel_attempted' = {}
    /\ IF monitoring_orders
       THEN /\ cancel_pc' = "cancel_limit"
            /\ cancel_result' = "none"
       ELSE /\ cancel_pc' = "returned"
            /\ cancel_result' = "not_found"
    /\ UNCHANGED <<oco_pc, ex_limit, ex_stop, oco_status, monitoring_orders,
                   mon_pc, limit_status, stop_status, cleanup_cancel, mon_cancel>>
    /\ UNCHANGED <<twapVars, gridVars, ladderVars, ocoAux>>

\* cancel_order on the limit leg; a raise leaves the try block: return False.
CancelOcoLimit ==
    /\ cancel_pc = "cancel_limit"
    /\ cancel_attempted' = cancel_attempted \cup {"limit"}
    /\ \E o \in CancelOutcomes(ex_limit) :
          /\ ex_limit' = AfterCancel(ex_limit, o)
          /\ IF o = "ok"
             THEN /\ cancel_pc' = "cancel_stop"
                  /\ cancel_result' = cancel_result
             ELSE /\ cancel_pc' = "returned"
                  /\ cancel_result' = "false"
    /\ UNCHANGED <<oco_pc, ex_stop, oco_status, monitoring_orders, mon_pc,
                   limit_status, stop_status, cleanup_cancel, mon_cancel>>
    /\ UNCHANGED <<twapVars, gridVars, ladderVars, ocoAux>>

\* cancel_order on the stop leg, then the status update and return True.
CancelOcoStop ==
    /\ cancel_pc = "cancel_stop"
    /\ cancel_attempted' = cancel_attempted \cup {"stop"}
    /\ \E o \in CancelOutcomes(ex_stop) :
          /\ ex_stop' = AfterCancel(ex_stop, o)
          /\ IF o = "ok"
             THEN /\ oco_status' = "CANCELLED"
                  /\ cancel_result' = "true"
                  /\ oco_cancel_acked' = TRUE
             ELSE /\ oco_status' = oco_status
                  /\ cancel_result' = "false"
                  /\ oco_cancel_acked' = oco_cancel_acked
    /\ cancel_pc' = "returned"
    /\ UNCHANGED <<oco_pc, ex_limit, monitoring_orders, mon_pc, limit_status,
                   stop_status, cleanup_cancel, mon_cancel>>
    /\ UNCHANGED <<twapVars, gridVars, ladderVars, listVars, mon_poll_failed>>

\* The caller is free to call cancel_oco_order again.
CancelOcoAgain ==
    /\ cancel_pc = "returned"
    /\ cancel_pc' = "idle"
    /\ UNCHANGED <<oco_pc, ex_limit, ex_stop, oco_status, monitoring_orders,
                   mon_pc, limit_status, stop_status, cancel_result,
                   cleanup_cancel, mon_cancel, cancel_attempted>>
    /\ UNCHANGED <<twapVars, gridVars, ladderVars, ocoAux>>

(***************************************************************************)
(* OCO: list_active_oco_orders                                             *)
(***************************************************************************)

\* What a reader finds in the registry now.
RegistryContent ==
    IF monitoring_orders
    THEN [registered |-> TRUE, status |-> oco_status]
    ELSE NoListing

\* The emptiness test: an empty registry returns a fresh {} at once,
\* otherwise the iteration over self.monitoring_orders.items() begins.
ListCall ==
    /\ list_pc = "idle"
    /\ IF monitoring_orders
       THEN /\ list_pc' = "iterating"
            /\ UNCHANGED <<list_result, list_seen>>
       ELSE /\ list_pc' = "returned"
            /\ list_result' = "empty"
            /\ list_seen' = NoListing
    /\ UNCHANGED <<oco_pc, ex_limit, ex_stop, oco_status, monitoring_orders,
                   mon_pc, limit_status, stop_status, cancel_pc, cancel_result,
                   cleanup_cancel, mon_cancel, cancel_attempted,
                   oco_cancel_acked, mon_poll_failed>>
    /\ UNCHANGED <<twapVars, gridVars, ladderVars>>

\* The iterator yields the entry and its row is built; if the entry was
\* deleted since the iteration began the iterator raises RuntimeError
\* (dictionary changed size during iteration), which nothing catches.
ListRow ==
    /\ list_pc = "iterating"
    /\ list_pc' = IF monitoring_orders THEN "row" ELSE "raised"
    /\ UNCHANGED <<list_result, list_seen>>
    /\ UNCHANGED <<oco_pc, ex_limit, ex_stop, oco_status, monitoring_orders,
                   mon_pc, limit_status, stop_status, cancel_pc, cancel_result,
                   cleanup_cancel, mon_cancel, cancel_attempted,
                   oco_cancel_acked, mon_poll_failed>>
    /\ UNCHANGED <<twapVars, gridVars, ladderVars>>

\* The iterator is asked for a further entry: it raises if the dict changed
\* size, otherwise the loop ends and self.monitoring_orders itself is
\* returned.
ListReturn ==
    /\ list_pc = "row"
    /\ IF monitoring_orders
       THEN /\ list_pc' = "returned"
            /\ list_result' = "live"
            /\ list_seen' = RegistryContent
       ELSE /\ list_pc' = "raised"
            /\ UNCHANGED <<list_result, list_seen>>
    /\ UNCHANGED <<oco_pc, ex_limit, ex_stop, oco_status, monitoring_orders,
                   mon_pc, limit_status, stop_status, cancel_pc, cancel_result,
                   cleanup_cancel, mon_cancel, cancel_attempted,
                   oco_cancel_acked, mon_poll_failed>>
    /\ UNCHANGED <<twapVars, gridVars, ladderVars>>

\* The reader drops the result and is free to list again.
ListAgain ==
    /\ list_pc \in {"returned", "raised"}
    /\ list_pc' = "idle"
    /\ list_result' = "none"
    /\ list_seen' = NoListing
    /\ UNCHANGED <<oco_pc, ex_limit, ex_stop, oco_status, monitoring_orders,
                   mon_pc, limit_status, stop_status, cancel_pc, cancel_result,
                   cleanup_cancel, mon_cancel, cancel_attempted,
                   oco_cancel_acked, mon_poll_failed>>
    /\ UNCHANGED <<twapVars, gridVars, ladderVars>>

(***************************************************************************)
(* OCO: properties                                                         *)
(***************************************************************************)

\* The monitor thread has left its polling loop.
MonitorTerminated == mon_pc \in {"remove", "done"}

\* C1 (as claimed): whenever the OCO monitor has terminated, exactly one leg
\* is FILLED on the exchange and the other leg is CANCELED.
C1_ExactlyOneFilledOtherCanceled ==
    MonitorTerminated =>
        \/ ex_limit = "FILLED" /\ ex_stop = "CANCELED"
        \/ ex_stop = "FILLED" /\ ex_limit = "CANCELED"

\* C1 (amended): whenever the OCO monitor has terminated, either it reported
\* a fill, and then the reported leg is FILLED, one cancel of the other leg
\* was issued and that leg is CANCELED if the cancel succeeded (it stays as
\* the exchange has it, filled or open, if the cancel raised); or it saw both
\* legs CANCELED, and then both are CANCELED.  The two legs are never both
\* left open.
C1_MonitorTermination ==
    MonitorTerminated =>
        /\ ~(ex_limit \in OpenStatuses /\ ex_stop \in OpenStatuses)
        /\ \/ /\ oco_status = "LIMIT_FILLED"
              /\ ex_limit = "FILLED"
              /\ mon_cancel.leg = "stop"
              /\ mon_cancel.outcome = "ok" => ex_stop = "CANCELED"
           \/ /\ oco_status = "STOP_FILLED"
              /\ ex_stop = "FILLED"
              /\ mon_cancel.leg = "limit"
              /\ mon_cancel.outcome = "ok" => ex_limit = "CANCELED"
           \/ /\ oco_status = "CANCELLED"
              /\ mon_cancel.leg = "none"
              /\ ex_limit = "CANCELED"
              /\ ex_stop = "CANCELED"

\* C1 witness: the monitor ended on a take-profit fill that raced with a fill
\* of the stop leg, so both legs are FILLED.
C1_Witness ==
    /\ mon_pc = "done"
    /\ oco_status = "LIMIT_FILLED"
    /\ mon_cancel = [leg |-> "stop", outcome |-> "error"]
    /\ ex_limit = "FILLED"
    /\ ex_stop = "FILLED"

\* C2: when placing the stop leg failed and the error has reached the caller,
\* the limit leg placed before it is no longer open on the exchange.
C2_NoOrphanAfterFailedStart ==
    oco_pc = "failed_stop" => ex_limit \notin OpenStatuses

\* C8: a cancel_oco_order call on a registered OCO has, when it returns,
\* attempted the cancel of both legs and set the status CANCELLED.
C8_CancelAttemptsBothLegs ==
    (cancel_pc = "returned" /\ cancel_result # "not_found") =>
        /\ cancel_attempted = {"limit", "stop"}
        /\ oco_status = "CANCELLED"

\* C13: the status of an OCO strategy is always one of ACTIVE,
\* TAKE_PROFIT_FILLED, STOP_FILLED, CANCELLED, ERROR; a monitor that ended on
\* the take-profit leg FILLED leaves TAKE_PROFIT_FILLED with the stop leg
\* CANCELED, one that ended on the stop leg FILLED leaves STOP_FILLED with
\* the limit leg CANCELED.
C13_StatusVocabulary ==
    /\ oco_status # "NONE" =>
           oco_status \in {"ACTIVE", "TAKE_PROFIT_FILLED", "STOP_FILLED",
                           "CANCELLED", "ERROR"}
    /\ (MonitorTerminated /\ mon_cancel.leg = "stop") =>
           oco_status = "TAKE_PROFIT_FILLED" /\ ex_stop = "CANCELED"
    /\ (MonitorTerminated /\ mon_cancel.leg = "limit") =>
           oco_status = "STOP_FILLED" /\ ex_limit = "CANCELED"

\* What the reader of the last listing finds in the object it was handed.
ListedValue == IF list_result = "live" THEN RegistryContent ELSE NoListing

\* C18: the object a listing returned keeps the content it had when it was
\* returned: no later step of the monitor changes what the reader holds.
C18_ListingIsSnapshot ==
    list_pc = "returned" => ListedValue = list_seen

\* C19: while a listing is iterating the registry, no other thread inserts
\* into it or removes from it.
C19_RegistryAccessExclusive ==
    [][(list_pc \in {"iterating", "row"}) =>
           (monitoring_orders' = monitoring_orders)]_vars

\* The monitor acts on what its poll observed.
DecideStep == mon_pc = "decide" /\ mon_pc' # "decide"

\* The poll observed both legs CANCELED.
BothObservedCanceled == limit_status = "CANCELED" /\ stop_status = "CANCELED"

\* The poll observed one leg CANCELED and the other still open.
OneObservedCanceled ==
    \/ limit_status = "CANCELED" /\ stop_status \in OpenStatuses
    \/ stop_status = "CANCELED" /\ limit_status \in OpenStatuses

\* C27: a monitor that observed both legs CANCELED sets the status
\* CANCELLED, sends nothing to the exchange and leaves its loop; a monitor
\* that observed one leg CANCELED and the other open leaves the status as it
\* is, sends nothing and polls again.
C27_BothLegsCanceled ==
    [][ /\ (DecideStep /\ BothObservedCanceled) =>
              /\ oco_status' = "CANCELLED"
              /\ mon_pc' = "remove"
              /\ ex_limit' = ex_limit /\ ex_stop' = ex_stop
              /\ mon_cancel' = mon_cancel
        /\ (DecideStep /\ OneObservedCanceled) =>
              /\ oco_status' = oco_status
              /\ mon_pc' = "poll_limit"
              /\ ex_limit' = ex_limit /\ ex_stop' = ex_stop
              /\ mon_cancel' = mon_cancel
      ]_vars

\* After an earlier poll that saw one leg CANCELED and went on polling
\* (the status stayed ACTIVE), the monitor saw both legs CANCELED, set
\* CANCELLED and left its loop without having cancelled anything itself.
C27_Witness ==
    /\ mon_pc = "remove"
    /\ BothObservedCanceled
    /\ oco_status = "CANCELLED"
    /\ mon_cancel = [leg |-> "none", outcome |-> "none"]
    /\ cancel_pc = "idle"
    /\ cancel_result = "none"

\* The statuses that end an OCO strategy.
TerminalOcoStatuses == {"LIMIT_FILLED", "STOP_FILLED", "CANCELLED"}

\* The monitor thread is inside its polling loop.
MonitorPolling == mon_pc \in {"poll_limit", "poll_stop", "decide"}

\* C28: a registered OCO strategy whose monitor is polling has the status
\* ACTIVE; a terminal status is found in the registry only while the monitor
\* that has left its loop is about to delete the strategy.
C28_PollingMeansActive ==
    (monitoring_orders /\ MonitorPolling) => oco_status = "ACTIVE"

\* Statuses after which an order never changes again.
FinalStatuses == {"FILLED", "CANCELED", "REJECTED", "EXPIRED"}

\* The poll observed both legs in a final status.
BothObservedFinal ==
    limit_status \in FinalStatuses /\ stop_status \in FinalStatuses

\* C35: a monitor whose poll observed both legs in a final status leaves
\* its loop with a status other than ACTIVE (and then removes the strategy).
C35_MonitorEndsOnFinalLegs ==
    [][ (DecideStep /\ BothObservedFinal) =>
            /\ mon_pc' = "remove"
            /\ oco_status' # "ACTIVE"
      ]_vars

OcoNext ==
    \/ OcoPlaceLimit
    \/ OcoPlaceStopOk
    \/ OcoPlaceStopFail
    \/ OcoStartThreadFail
    \/ ExFillLimit
    \/ ExFillStop
    \/ ExExternalCancel
    \/ ExEndLeg
    \/ MonPollLimit
    \/ MonPollStop
    \/ MonPollError
    \/ MonDecide
    \/ MonRemove
    \/ CancelOcoCall
    \/ CancelOcoLimit
    \/ CancelOcoStop
    \/ CancelOcoAgain
    \/ ListCall
    \/ ListRow
    \/ ListReturn
    \/ ListAgain

(***************************************************************************)
(* Quantities and prices                                                   *)
(*                                                                         *)
(* The engine computes quantities in floating point, the client rounds     *)
(* every order quantity to quantity_precision decimals before sending it.  *)
(* A quantity is a whole number of sub-steps, SubSteps of them making one  *)
(* quantity step (10^-quantity_precision); a price is a whole number of a  *)
(* price unit.  chunk_size, a quotient, is cut to a whole sub-step.        *)
(***************************************************************************)

\* Resolution of the engine's quantities: sub-steps per quantity step.
SubSteps == 12

\* config.trading.min_quantity and max_quantity, in quantity steps.
MinQuantitySteps == 1
MaxQuantitySteps == 100000

Min(a, b) == IF a < b THEN a ELSE b

\* round(v, config.trading.quantity_precision): the nearest whole step.  On
\* an exact tie the result depends on the binary representation of v, so
\* both neighbours are possible.
RoundQuantity(q) ==
    LET lo == (q \div SubSteps) * SubSteps
        r == q % SubSteps
    IN IF 2 * r < SubSteps THEN {lo}
       ELSE IF 2 * r > SubSteps THEN {lo + SubSteps}
       ELSE {lo, lo + SubSteps}

\* OrderRequest.validate_quantity accepts v: positive and within
\* [min_quantity, max_quantity] before rounding.
QuantityAccepted(q) ==
    /\ q > 0
    /\ q >= MinQuantitySteps * SubSteps
    /\ q <= MaxQuantitySteps * SubSteps

(***************************************************************************)
(* TWAP: execute_twap_order                                                *)
(***************************************************************************)

\* Longest schedule offered to execute_twap_order, in minutes.
MaxDuration == 4

\* Longest interval offered to execute_twap_order, in minutes.
MaxInterval == 3

\* Largest total quantity offered, in quantity steps.
MaxTotalSteps == 6

\* Inputs offered to execute_twap_order: whole numbers of steps, and two
\* totals that are not a multiple of the quantity step, one half way
\* between two steps and one two thirds of the way to the next step.
Durations == 0 .. MaxDuration
Intervals == 1 .. MaxInterval
Totals == {k * SubSteps : k \in (MaxTotalSteps - 3) .. MaxTotalSteps}
              \cup {((2 * MaxTotalSteps - 1) * SubSteps) \div 2}
              \cup {((3 * MaxTotalSteps - 1) * SubSteps) \div 3}

\* Average fill prices the exchange reports for a chunk.
Prices == {10, 12}

\* TWAPOrderRequest: duration_minutes in 1..1440, interval_minutes > 0 and
\* smaller than the duration, total_quantity > 0.
TwapDurationLimit == 1440

TwapRequestValid(total, duration, interval) ==
    /\ total > 0
    /\ duration > 0
    /\ duration <= TwapDurationLimit
    /\ interval > 0
    /\ interval < duration

NoTwapOrder ==
    [total_quantity |-> 0, remaining_quantity |-> 0, chunk_size |-> 0,
     num_chunks |-> 0, executed_chunks |-> 0, status |-> "NONE",
     executions |-> <<>>, total_filled |-> 0, avg_price |-> 0]

\* No request has been made.
NoTwapRequest == [total |-> 0, duration |-> 0, interval |-> 0]

TwapInit ==
    /\ twap_pc = "idle"
    /\ twap_order = NoTwapOrder
    /\ chunk_num = 0
    /\ active_twap_orders = FALSE
    /\ twap_cancel_result = "none"
    /\ requested = <<>>
    /\ cancel_acked = FALSE
    /\ twap_in = NoTwapRequest

\* A refusal that left the request registered all the same.
TwapRejectRegistering ==
    /\ twap_pc = "idle"
    /\ \E total \in Totals, duration \in Durations, interval \in Intervals :
          /\ ~TwapRequestValid(total, duration, interval)
          /\ twap_in' = [total |-> total, duration |-> duration,
                         interval |-> interval]
    /\ twap_pc' = "rejected"
    /\ active_twap_orders' = TRUE
    /\ UNCHANGED <<twap_order, chunk_num, twap_cancel_result, requested,
                   cancel_acked>>
    /\ UNCHANGED <<ocoVars, gridVars, ladderVars>>

\* A request the validator refuses: the error is raised to the caller.
TwapReject ==
    /\ twap_pc = "idle"
    /\ \E total \in Totals, duration \in Durations, interval \in Intervals :
          /\ ~TwapRequestValid(total, duration, interval)
          /\ twap_in' = [total |-> total, duration |-> duration,
                         interval |-> interval]
    /\ twap_pc' = "rejected"
    /\ UNCHANGED <<twap_order, chunk_num, active_twap_orders,
                   twap_cancel_result, requested, cancel_acked>>
    /\ UNCHANGED <<ocoVars, gridVars, ladderVars>>

\* A valid request: the plan is computed, the order is registered ACTIVE and
\* the execution thread is started.  Thread.start() raises RuntimeError when
\* the interpreter cannot create a thread: the error reaches the caller with
\* the order already registered.
TwapStart ==
    /\ twap_pc = "idle"
    /\ \E total \in Totals, duration \in Durations, interval \in Intervals :
          /\ TwapRequestValid(total, duration, interval)
          /\ twap_in' = [total |-> total, duration |-> duration,
                         interval |-> interval]
          /\ LET n == duration \div interval
             IN twap_order' =
                    [total_quantity |-> total, remaining_quantity |-> total,
                     chunk_size |-> total \div n, num_chunks |-> n,
                     executed_chunks |-> 0, status |-> "ACTIVE",
                     executions |-> <<>>, total_filled |-> 0, avg_price |-> 0]
    /\ active_twap_orders' = TRUE
    /\ chunk_num' = 0
    /\ \E thread_started \in BOOLEAN :
          twap_pc' = IF thread_started THEN "chunk" ELSE "start_failed"
    /\ UNCHANGED <<twap_cancel_result, requested, cancel_acked>>
    /\ UNCHANGED <<ocoVars, gridVars, ladderVars>>

(***************************************************************************)
(* TWAP: _execute_twap_chunks                                              *)
(***************************************************************************)

\* self.stop_scheduler is created clear and nothing in the repository sets it.
stop_scheduler == FALSE

\* Size of chunk c with the last-chunk rule left out.
ActualChunkSizeNoLastRule(order, c) ==
    Min(order.chunk_size, order.remaining_quantity)

\* actual_chunk_size of chunk c: the last chunk takes all that remains.
ActualChunkSize(order, c) ==
    IF c = order.num_chunks - 1
    THEN order.remaining_quantity
    ELSE Min(order.chunk_size, order.remaining_quantity)

RECURSIVE TotalValue(_)
TotalValue(execs) ==
    IF execs = <<>> THEN 0
    ELSE execs[1].quantity * execs[1].price + TotalValue(Tail(execs))

RECURSIVE TotalQty(_)
TotalQty(execs) ==
    IF execs = <<>> THEN 0 ELSE execs[1].quantity + TotalQty(Tail(execs))

\* avg_price set to the price of the last execution.
UpdateAveragePriceLast(order) ==
    IF order.executions = <<>> THEN order
    ELSE [order EXCEPT !.avg_price = order.executions[Len(order.executions)].price]

\* _update_average_price: the quotient is rounded down to a whole tick.
UpdateAveragePrice(order) ==
    IF TotalQty(order.executions) > 0
    THEN [order EXCEPT !.avg_price =
              TotalValue(order.executions) \div TotalQty(order.executions)]
    ELSE order

\* The bookkeeping with total_filled left as it was.
RecordFillNoTotal(order, c, qty, price) ==
    UpdateAveragePrice(
        [order EXCEPT
            !.executions = Append(@, [chunk_num |-> c + 1, quantity |-> qty,
                                      price |-> price]),
            !.remaining_quantity = @ - qty,
            !.executed_chunks = @ + 1])

\* The bookkeeping after a chunk came back FILLED for qty at price.
RecordFill(order, c, qty, price) ==
    UpdateAveragePrice(
        [order EXCEPT
            !.executions = Append(@, [chunk_num |-> c + 1, quantity |-> qty,
                                      price |-> price]),
            !.total_filled = @ + qty,
            !.remaining_quantity = @ - qty,
            !.executed_chunks = @ + 1])

\* Where the loop goes after chunk c: the interval sleep, or the end.
AfterChunk(order, c) == IF c < order.num_chunks - 1 THEN "sleep" ELSE "finish"

\* An executor without the size test: a chunk of no quantity is handed to
\* _execute_chunk like any other (the client's validator refuses it).
TwapBreakMissing ==
    /\ twap_pc = "chunk"
    /\ ~stop_scheduler
    /\ ActualChunkSize(twap_order, chunk_num) <= 0
    /\ requested' = Append(requested,
           [chunk_num |-> chunk_num,
            quantity |-> ActualChunkSize(twap_order, chunk_num), sent |-> 0,
            result |-> "invalid"])
    /\ twap_pc' = AfterChunk(twap_order, chunk_num)
    /\ UNCHANGED <<twap_order, chunk_num, active_twap_orders,
                   twap_cancel_result, cancel_acked>>
    /\ UNCHANGED <<ocoVars, gridVars, ladderVars, twapAux>>

\* The loop stops before a chunk whose size is not positive.
TwapBreak ==
    /\ twap_pc = "chunk"
    /\ ~stop_scheduler
    /\ ActualChunkSize(twap_order, chunk_num) <= 0
    /\ twap_pc' = "finish"
    /\ UNCHANGED <<twap_order, chunk_num, active_twap_orders,
                   twap_cancel_result, requested, cancel_acked>>
    /\ UNCHANGED <<ocoVars, gridVars, ladderVars, twapAux>>

\* One chunk whose quantity the client's validator refuses: the ValueError is
\* caught by _execute_chunk, which returns None; nothing reaches the exchange.
TwapChunkInvalid ==
    /\ twap_pc = "chunk"
    /\ ~stop_scheduler
    /\ LET size == ActualChunkSize(twap_order, chunk_num)
       IN /\ size > 0
          /\ ~QuantityAccepted(size)
          /\ requested' = Append(requested,
                 [chunk_num |-> chunk_num, quantity |-> size, sent |-> 0,
                  result |-> "invalid"])
    /\ twap_pc' = AfterChunk(twap_order, chunk_num)
    /\ UNCHANGED <<twap_order, chunk_num, active_twap_orders,
                   twap_cancel_result, cancel_acked>>
    /\ UNCHANGED <<ocoVars, gridVars, ladderVars, twapAux>>

\* An executor that leaves its loop when a chunk is not placed.
TwapChunkAborting ==
    /\ twap_pc = "chunk"
    /\ ~stop_scheduler
    /\ LET size == ActualChunkSize(twap_order, chunk_num)
       IN /\ size > 0
          /\ QuantityAccepted(size)
          /\ \E sent \in RoundQuantity(size) :
                \E result \in {"rejected", "open", "filled"} :
                   /\ requested' = Append(requested,
                          [chunk_num |-> chunk_num, quantity |-> size,
                           sent |-> sent, result |-> result])
                   /\ IF result = "filled"
                      THEN \E price \in Prices :
                              twap_order' =
                                  RecordFill(twap_order, chunk_num, sent, price)
                      ELSE twap_order' = twap_order
                   /\ twap_pc' = IF result = "rejected" THEN "finish"
                                 ELSE AfterChunk(twap_order, chunk_num)
    /\ UNCHANGED <<chunk_num, active_twap_orders, twap_cancel_result, cancel_acked>>
    /\ UNCHANGED <<ocoVars, gridVars, ladderVars, twapAux>>

\* An executor that books a chunk as soon as the exchange accepts the order,
\* filled or not.
TwapChunkBookingOpen ==
    /\ twap_pc = "chunk"
    /\ ~stop_scheduler
    /\ LET size == ActualChunkSize(twap_order, chunk_num)
       IN /\ size > 0
          /\ QuantityAccepted(size)
          /\ \E sent \in RoundQuantity(size) :
                \E result \in {"rejected", "open", "filled"} :
                   /\ requested' = Append(requested,
                          [chunk_num |-> chunk_num, quantity |-> size,
                           sent |-> sent, result |-> result])
                   /\ IF result \in {"filled", "open"}
                      THEN \E price \in Prices :
                              twap_order' =
                                  RecordFill(twap_order, chunk_num, sent, price)
                      ELSE twap_order' = twap_order
    /\ twap_pc' = AfterChunk(twap_order, chunk_num)
    /\ UNCHANGED <<chunk_num, active_twap_orders, twap_cancel_result, cancel_acked>>
    /\ UNCHANGED <<ocoVars, gridVars, ladderVars, twapAux>>

\* One chunk sent to the exchange, for the quantity rounded to the quantity
\* precision.  The call raises (None), or the order comes back with a status
\* other than FILLED (a resting limit order, a market order still NEW), or
\* it comes back FILLED with executedQty the quantity sent.
TwapChunk ==
    /\ twap_pc = "chunk"
    /\ ~stop_scheduler
    /\ LET size == ActualChunkSize(twap_order, chunk_num)
       IN /\ size > 0
          /\ QuantityAccepted(size)
          /\ \E sent \in RoundQuantity(size) :
                \E result \in {"rejected", "open", "filled"} :
                   /\ requested' = Append(requested,
                          [chunk_num |-> chunk_num, quantity |-> size,
                           sent |-> sent, result |-> result])
                   /\ IF result = "filled"
                      THEN \E price \in Prices :
                              twap_order' =
                                  RecordFill(twap_order, chunk_num, sent, price)
                      ELSE twap_order' = twap_order
    /\ twap_pc' = AfterChunk(twap_order, chunk_num)
    /\ UNCHANGED <<chunk_num, active_twap_orders, twap_cancel_result, cancel_acked>>
    /\ UNCHANGED <<ocoVars, gridVars, ladderVars, twapAux>>

\* time.sleep(interval_minutes * 60) returns and the for loop advances.
TwapWake ==
    /\ twap_pc = "sleep"
    /\ chunk_num' = chunk_num + 1
    /\ twap_pc' = "chunk"
    /\ UNCHANGED <<twap_order, active_twap_orders, twap_cancel_result,
                   requested, cancel_acked>>
    /\ UNCHANGED <<ocoVars, gridVars, ladderVars, twapAux>>

\* An executor that left the loop without writing a status.
TwapFinishSilent ==
    /\ twap_pc = "finish"
    /\ twap_pc' = "remove"
    /\ UNCHANGED <<twap_order, chunk_num, active_twap_orders, twap_cancel_result,
                   requested, cancel_acked>>
    /\ UNCHANGED <<ocoVars, gridVars, ladderVars, twapAux>>

\* After the loop the order is marked COMPLETED.
TwapFinish ==
    /\ twap_pc = "finish"
    /\ twap_order' = [twap_order EXCEPT !.status = "COMPLETED"]
    /\ twap_pc' = "remove"
    /\ UNCHANGED <<chunk_num, active_twap_orders, twap_cancel_result,
                   requested, cancel_acked>>
    /\ UNCHANGED <<ocoVars, gridVars, ladderVars, twapAux>>

\* ... and deleted from self.active_twap_orders.
TwapRemove ==
    /\ twap_pc = "remove"
    /\ active_twap_orders' = FALSE
    /\ twap_pc' = "done"
    /\ UNCHANGED <<twap_order, chunk_num, twap_cancel_result, requested,
                   cancel_acked>>
    /\ UNCHANGED <<ocoVars, gridVars, ladderVars, twapAux>>

(***************************************************************************)
(* TWAP: cancel_twap_order                                                 *)
(***************************************************************************)

\* A cancel that also discarded what the order had executed so far.
CancelTwapClearing ==
    /\ IF active_twap_orders
       THEN /\ twap_order' = [twap_order EXCEPT !.status = "CANCELLED",
                                                !.executions = <<>>,
                                                !.executed_chunks = 0,
                                                !.total_filled = 0,
                                                !.avg_price = 0]
            /\ twap_cancel_result' = "true"
            /\ cancel_acked' = TRUE
       ELSE /\ twap_cancel_result' = "not_found"
            /\ UNCHANGED <<twap_order, cancel_acked>>
    /\ UNCHANGED <<twap_pc, chunk_num, active_twap_orders, requested>>
    /\ UNCHANGED <<ocoVars, gridVars, ladderVars, twapAux>>

CancelTwap ==
    /\ IF active_twap_orders
       THEN /\ twap_order' = [twap_order EXCEPT !.status = "CANCELLED"]
            /\ twap_cancel_result' = "true"
            /\ cancel_acked' = TRUE
       ELSE /\ twap_cancel_result' = "not_found"
            /\ UNCHANGED <<twap_order, cancel_acked>>
    /\ UNCHANGED <<twap_pc, chunk_num, active_twap_orders, requested>>
    /\ UNCHANGED <<ocoVars, gridVars, ladderVars, twapAux>>

(***************************************************************************)
(* TWAP: properties                                                        *)
(***************************************************************************)

\* Sum of the chunk sizes the executor computed.
RECURSIVE SumRequested(_)
SumRequested(reqs) ==
    IF reqs = <<>> THEN 0 ELSE reqs[1].quantity + SumRequested(Tail(reqs))

\* Sum of the quantities of the orders sent to the exchange.
RECURSIVE SumSent(_)
SumSent(reqs) == IF reqs = <<>> THEN 0 ELSE reqs[1].sent + SumSent(Tail(reqs))

\* Quantity the executions record for the chunks with index below c.
RECURSIVE CreditedBefore(_, _)
CreditedBefore(execs, c) ==
    IF execs = <<>> THEN 0
    ELSE (IF execs[1].chunk_num <= c THEN execs[1].quantity ELSE 0)
             + CreditedBefore(Tail(execs), c)

\* The executor has left its loop after attempting every chunk of the schedule.
WholeScheduleRun ==
    /\ twap_pc \in {"finish", "remove", "done"}
    /\ twap_order.num_chunks > 0
    /\ Len(requested) = twap_order.num_chunks

\* Every chunk before the last came back FILLED.
NonFinalChunksFilled ==
    \A i \in 1 .. Len(requested) :
        requested[i].chunk_num < twap_order.num_chunks - 1
            => requested[i].result = "filled"

\* Every chunk before the last came back FILLED for exactly the size computed.
NonFinalChunksFilledExactly ==
    \A i \in 1 .. Len(requested) :
        requested[i].chunk_num < twap_order.num_chunks - 1
            => /\ requested[i].result = "filled"
               /\ requested[i].sent = requested[i].quantity

C6_NoChunkAfterCancel ==
    [][cancel_acked => requested' = requested]_vars

\* C7: once a cancel request has set the status CANCELLED, the status never
\* becomes COMPLETED.
C7_CancelledNeverCompleted ==
    [][twap_order.status = "CANCELLED" => twap_order'.status # "COMPLETED"]_vars

\* C14: total_filled is the sum of the quantities of the execution records
\* and executed_chunks is their number.
C14_FillAccounting ==
    /\ twap_order.total_filled = TotalQty(twap_order.executions)
    /\ twap_order.executed_chunks = Len(twap_order.executions)

\* C14 witness: two or more chunks are recorded and they fill the order.
C14_Witness ==
    /\ Len(twap_order.executions) >= 2
    /\ twap_order.total_filled = twap_order.total_quantity
    /\ twap_order.total_filled > 0

\* C15: avg_price is the quantity-weighted mean of the execution records, to
\* the rounding of one price unit, and 0 while there is none.
C15_AveragePrice ==
    IF twap_order.executions = <<>>
    THEN twap_order.avg_price = 0
    ELSE /\ twap_order.avg_price * TotalQty(twap_order.executions)
                <= TotalValue(twap_order.executions)
         /\ TotalValue(twap_order.executions)
                < (twap_order.avg_price + 1) * TotalQty(twap_order.executions)

\* C15 witness: executions at two prices, the average lying between them.
C15_Witness ==
    /\ \E i, j \in 1 .. Len(twap_order.executions) :
          /\ twap_order.executions[i].price < twap_order.avg_price
          /\ twap_order.avg_price < twap_order.executions[j].price
    /\ twap_order.avg_price * TotalQty(twap_order.executions)
           = TotalValue(twap_order.executions)

\* The request made gives floor(duration / interval) = 0 chunks.
ZeroChunkRequest ==
    /\ twap_pc # "idle"
    /\ twap_in.interval > 0
    /\ twap_in.duration \div twap_in.interval = 0

\* C21: a TWAP request whose duration and interval give zero chunks is
\* refused with nothing registered and no order sent, and every TWAP order
\* that was accepted has at least one chunk.
C21_ZeroChunksRejected ==
    /\ ZeroChunkRequest =>
           /\ twap_pc = "rejected"
           /\ ~active_twap_orders
           /\ twap_order = NoTwapOrder
           /\ requested = <<>>
    /\ twap_order # NoTwapOrder => twap_order.num_chunks >= 1

\* A request with a positive duration shorter than its interval was refused.
C21_Witness ==
    /\ ZeroChunkRequest
    /\ twap_in.duration > 0
    /\ twap_pc = "rejected"

\* The executor has left its loop.
TwapLoopLeft == twap_pc \in {"finish", "remove", "done"}

\* Chunk index c was attempted.
ChunkAttempted(c) == \E k \in 1 .. Len(requested) : requested[k].chunk_num = c

\* C24: a chunk that was not placed (the exchange or the validator refused
\* it) does not end the schedule: right after it the executor sleeps the
\* interval and goes on to the next index, and when the executor has left
\* its loop every later index up to num_chunks - 1 was attempted, unless a
\* cancel was acknowledged or the quantity was exhausted.
C24_FailedChunkDoesNotAbort ==
    \A j \in 1 .. Len(requested) :
        LET r == requested[j]
        IN (r.result \in {"rejected", "invalid"} /\ ~cancel_acked) =>
              /\ (j = Len(requested) /\ r.chunk_num < twap_order.num_chunks - 1)
                     => \/ twap_pc = "sleep" /\ chunk_num = r.chunk_num
                        \/ twap_pc = "chunk" /\ chunk_num = r.chunk_num + 1
              /\ TwapLoopLeft =>
                     \A c \in (r.chunk_num + 1) .. (twap_order.num_chunks - 1) :
                         ChunkAttempted(c) \/ twap_order.remaining_quantity <= 0

\* The first chunk of a schedule was refused by the exchange, the schedule
\* ran on and its last chunk was filled.
C24_Witness ==
    /\ TwapLoopLeft
    /\ ~cancel_acked
    /\ twap_order.num_chunks >= 2
    /\ Len(requested) = twap_order.num_chunks
    /\ requested[1].result = "rejected"
    /\ requested[Len(requested)].result = "filled"

\* This step attempts a chunk that does not come back FILLED.
ChunkNotFilled ==
    /\ Len(requested') = Len(requested) + 1
    /\ requested'[Len(requested')].result # "filled"

\* C25: a step in which a chunk is refused, is not sent, or comes back with
\* a status other than FILLED leaves executions, total_filled,
\* executed_chunks, remaining_quantity and avg_price as they were.
C25_OnlyFilledChunksChangeState ==
    [][ChunkNotFilled =>
          /\ twap_order'.executions = twap_order.executions
          /\ twap_order'.total_filled = twap_order.total_filled
          /\ twap_order'.executed_chunks = twap_order.executed_chunks
          /\ twap_order'.remaining_quantity = twap_order.remaining_quantity
          /\ twap_order'.avg_price = twap_order.avg_price]_vars

\* After one filled chunk, a chunk came back resting (not FILLED) and the
\* order still shows the one fill.
C25_Witness ==
    /\ Len(requested) = 2
    /\ requested[1].result = "filled"
    /\ requested[2].result = "open"
    /\ twap_order.executed_chunks = 1
    /\ twap_order.total_filled = requested[1].sent
    /\ twap_order.remaining_quantity
           = twap_order.total_quantity - requested[1].sent

\* The executor is at a chunk whose computed size is not positive.
ChunkSizeExhausted ==
    twap_pc = "chunk" /\ ActualChunkSize(twap_order, chunk_num) <= 0

\* C32: every chunk handed to _execute_chunk has a positive size and every
\* order sent for it a positive quantity; at a chunk whose computed size is
\* not positive the executor leaves its loop without attempting anything,
\* and the step after the loop sets the status COMPLETED.
C32_NoEmptyChunk ==
    [][ /\ requested' # requested =>
              LET r == requested'[Len(requested')]
              IN /\ r.quantity > 0
                 /\ r.result # "invalid" => r.sent > 0
        /\ (ChunkSizeExhausted /\ twap_pc' # twap_pc) =>
              /\ twap_pc' = "finish"
              /\ requested' = requested
        /\ (twap_pc = "finish" /\ twap_pc' # twap_pc) =>
              twap_order'.status = "COMPLETED"
      ]_vars

\* The quantity ran out before the last chunk of the schedule: the executor
\* left its loop early and the order is COMPLETED.
C32_Witness ==
    /\ twap_pc \in {"remove", "done"}
    /\ twap_order.status = "COMPLETED"
    /\ twap_order.remaining_quantity <= 0
    /\ Len(requested) < twap_order.num_chunks
    /\ \A k \in 1 .. Len(requested) : requested[k].result = "filled"

\* No execution record holds more than the quantity of the order that was
\* sent to the exchange for its chunk.
NoChunkOverfilled ==
    \A e \in 1 .. Len(twap_order.executions) :
        \A k \in 1 .. Len(requested) :
            requested[k].chunk_num + 1 = twap_order.executions[e].chunk_num
                => twap_order.executions[e].quantity <= requested[k].sent

\* C36: as long as no chunk order was filled for more than its quantity,
\* total_filled and remaining_quantity add up to total_quantity and
\* remaining_quantity lies within 0 .. total_quantity.
C36_QuantityConservation ==
    NoChunkOverfilled =>
        /\ twap_order.total_filled + twap_order.remaining_quantity
               = twap_order.total_quantity
        /\ 0 <= twap_order.remaining_quantity
        /\ twap_order.remaining_quantity <= twap_order.total_quantity

\* Sum of the quantities of the chunk orders the exchange accepted, resting
\* or filled.
RECURSIVE SumSubmitted(_)
SumSubmitted(reqs) ==
    IF reqs = <<>> THEN 0
    ELSE (IF reqs[1].result \in {"open", "filled"} THEN reqs[1].sent ELSE 0)
             + SumSubmitted(Tail(reqs))

\* C37: the quantities of the chunk orders a TWAP has on the exchange,
\* resting or filled, sum to at most total_quantity.
C37_SubmittedWithinTotal ==
    SumSubmitted(requested) <= twap_order.total_quantity

TwapNext ==
    \/ TwapReject
    \/ TwapStart
    \/ TwapBreak
    \/ TwapChunkInvalid
    \/ TwapChunk
    \/ TwapWake
    \/ TwapFinish
    \/ TwapRemove
    \/ CancelTwap

(***************************************************************************)
(* Grid: execute_grid_strategy                                             *)
(*                                                                         *)
(* A price is a whole number of 10^-price_precision units.  buy_orders and *)
(* sell_orders are dicts keyed by level: a sequence of entries in          *)
(* insertion order, which is the order Python iterates them in.            *)
(***************************************************************************)

\* Most levels offered to execute_grid_strategy.
MaxGridCount == 3

\* Most orders the exchange accepts from the strategy; it refuses the rest.
MaxOrders == 3

\* tick_size = 0.1, in price units of 0.01.
TickSize == 10

\* Inputs offered to execute_grid_strategy.
GridCounts == 2 .. MaxGridCount
GridLowers == {1000}
GridUppers == {1040}
GridCurrents == {1010, 1020}
GridQuantities == {SubSteps}

\* round(x) of the quotient num / den of two positive integers: to the
\* nearest integer, ties to the even one.
RoundHalfEven(num, den) ==
    LET q == num \div den
        r == num % den
    IN IF 2 * r < den THEN q
       ELSE IF 2 * r > den THEN q + 1
       ELSE IF q % 2 = 0 THEN q ELSE q + 1

\* Price of level i + 1: lower_price + i * grid_gap, snapped to the tick.
GridLevelPrice(lower, upper, count, i) ==
    RoundHalfEven(lower * (count - 1) + i * (upper - lower),
                  (count - 1) * TickSize) * TickSize

\* The classification with a level at the current price counted as BUY.
OrderTypeAtOrBelow(price, current) ==
    IF price <= current THEN "BUY" ELSE "SELL"

OrderType(price, current) ==
    IF price < current THEN "BUY"
    ELSE IF price > current THEN "SELL"
    ELSE "MARKET"

\* _calculate_grid_levels
CalculateGridLevels(lower, upper, count, current) ==
    [i \in 1 .. count |->
        LET price == GridLevelPrice(lower, upper, count, i - 1)
        IN [level |-> i, price |-> price,
            order_type |-> OrderType(price, current), status |-> "PENDING"]]

\* Dict operations on buy_orders / sell_orders.
HasKey(d, l) == \E i \in 1 .. Len(d) : d[i].level = l

Entry(d, l) == d[CHOOSE i \in 1 .. Len(d) : d[i].level = l]

\* d[l] = order_result: an existing key keeps its place, a new one goes last.
Put(d, l, oid) ==
    LET e == [level |-> l, order_id |-> oid, status |-> "NEW"]
    IN IF HasKey(d, l)
       THEN [i \in 1 .. Len(d) |-> IF d[i].level = l THEN e ELSE d[i]]
       ELSE Append(d, e)

\* The order is the one recorded in an entry of the strategy's dicts, the
\* entries the monitor polls.
PolledIn(g, oid) ==
    \/ \E i \in 1 .. Len(g.buy_orders) : g.buy_orders[i].order_id = oid
    \/ \E i \in 1 .. Len(g.sell_orders) : g.sell_orders[i].order_id = oid

\* d[l]['status'] = 'FILLED'
MarkFilled(d, l) ==
    [i \in 1 .. Len(d) |->
        IF d[i].level = l THEN [d[i] EXCEPT !.status = "FILLED"] ELSE d[i]]

NoGridStrategy ==
    [grid_count |-> 0, quantity_per_grid |-> 0, current_price |-> 0,
     grid_levels |-> <<>>, buy_orders |-> <<>>, sell_orders |-> <<>>,
     executed_trades |-> <<>>, total_profit |-> 0, status |-> "NONE"]

NoOrderStatus == [level |-> 0, side |-> "NONE", order_id |-> 0]

NoCounter == [filled_level |-> 0, side |-> "NONE", target |-> 0, outcome |-> "none"]

GridInit ==
    /\ grid_pc = "idle"
    /\ grid_strategy = NoGridStrategy
    /\ active_grids = FALSE
    /\ ex_orders = <<>>
    /\ gmon_pc = "off"
    /\ gmon_idx = 0
    /\ order_status = NoOrderStatus
    /\ stop_pc = "idle"
    /\ stop_idx = 0
    /\ stop_size = 0
    /\ stop_result = "none"
    /\ stop_cancel_error = FALSE
    /\ last_counter = NoCounter
    /\ stop_acked = FALSE
    /\ gmon_poll_failed = FALSE
    /\ credits = <<>>

\* A seeding that stops at the first level whose placement fails.
RECURSIVE PlaceInitialGridOrdersAborting(_, _, _, _)
PlaceInitialGridOrdersAborting(g, ex, failed, i) ==
    IF i > Len(g.grid_levels) THEN [grid |-> g, ex |-> ex]
    ELSE
        LET lv == g.grid_levels[i]
            oid == Len(ex) + 1
            buy == lv.order_type = "BUY" /\ lv.price < g.current_price
            sell == lv.order_type = "SELL" /\ lv.price > g.current_price
        IN IF ~(buy \/ sell)
           THEN PlaceInitialGridOrdersAborting(g, ex, failed, i + 1)
           ELSE IF i \in failed
           THEN [grid |-> [g EXCEPT !.grid_levels[i].status = "FAILED"],
                 ex |-> ex]
           ELSE PlaceInitialGridOrdersAborting(
                    [g EXCEPT
                        !.grid_levels[i].status = "PLACED",
                        !.buy_orders = IF buy THEN Put(@, lv.level, oid) ELSE @,
                        !.sell_orders = IF sell THEN Put(@, lv.level, oid) ELSE @],
                    Append(ex, [side |-> lv.order_type, level |-> lv.level,
                                price |-> lv.price,
                                quantity |-> g.quantity_per_grid,
                                status |-> "NEW"]),
                    failed, i + 1)

\* _place_initial_grid_orders over the levels from i on: a BUY below and a
\* SELL above the current price, none at it; a level in failed raises in
\* place_limit_order and is marked FAILED.  g is the strategy so far and ex
\* the exchange's orders so far.
RECURSIVE PlaceInitialGridOrders(_, _, _, _)
PlaceInitialGridOrders(g, ex, failed, i) ==
    IF i > Len(g.grid_levels) THEN [grid |-> g, ex |-> ex]
    ELSE
        LET lv == g.grid_levels[i]
            oid == Len(ex) + 1
            buy == lv.order_type = "BUY" /\ lv.price < g.current_price
            sell == lv.order_type = "SELL" /\ lv.price > g.current_price
        IN IF ~(buy \/ sell)
           THEN PlaceInitialGridOrders(g, ex, failed, i + 1)
           ELSE IF i \in failed
           THEN PlaceInitialGridOrders(
                    [g EXCEPT !.grid_levels[i].status = "FAILED"], ex, failed, i + 1)
           ELSE PlaceInitialGridOrders(
                    [g EXCEPT
                        !.grid_levels[i].status = "PLACED",
                        !.buy_orders = IF buy THEN Put(@, lv.level, oid) ELSE @,
                        !.sell_orders = IF sell THEN Put(@, lv.level, oid) ELSE @],
                    Append(ex, [side |-> lv.order_type, level |-> lv.level,
                                price |-> lv.price,
                                quantity |-> g.quantity_per_grid,
                                status |-> "NEW"]),
                    failed, i + 1)

\* execute_grid_strategy: the levels are computed, the initial orders placed,
\* the strategy registered ACTIVE and the monitor thread started.
\* Thread.start() raises RuntimeError when the interpreter cannot create a
\* thread: the error reaches the caller with the strategy already registered.
GridStart ==
    /\ grid_pc = "idle"
    /\ \E count \in GridCounts, lower \in GridLowers, upper \in GridUppers,
          current \in GridCurrents, quantity \in GridQuantities :
          \E failed \in SUBSET (1 .. count) :
             LET g0 == [NoGridStrategy EXCEPT
                           !.grid_count = count,
                           !.quantity_per_grid = quantity,
                           !.current_price = current,
                           !.grid_levels =
                               CalculateGridLevels(lower, upper, count, current),
                           !.status = "ACTIVE"]
                 seeded == PlaceInitialGridOrders(g0, <<>>, failed, 1)
             IN /\ \A i \in failed : g0.grid_levels[i].order_type # "MARKET"
                /\ grid_strategy' = seeded.grid
                /\ ex_orders' = seeded.ex
    /\ active_grids' = TRUE
    /\ \E thread_started \in BOOLEAN :
          IF thread_started
          THEN gmon_pc' = "top" /\ grid_pc' = "started"
          ELSE gmon_pc' = gmon_pc /\ grid_pc' = "start_failed"
    /\ UNCHANGED <<gmon_idx, order_status, stop_pc, stop_idx, stop_size,
                   stop_result, stop_cancel_error, last_counter, credits>>
    /\ UNCHANGED <<ocoVars, twapVars, ladderVars, gridAux>>

\* execute_grid_strategy raises before anything is placed: get_current_price
\* fails (or GridOrderRequest refuses the arguments) and the error reaches
\* the caller.
GridStartFail ==
    /\ grid_pc = "idle"
    /\ grid_pc' = "failed"
    /\ UNCHANGED <<grid_strategy, active_grids, ex_orders, gmon_pc, gmon_idx,
                   order_status, stop_pc, stop_idx, stop_size, stop_result,
                   stop_cancel_error, last_counter, credits>>
    /\ UNCHANGED <<ocoVars, twapVars, ladderVars, gridAux>>

\* The exchange fills a resting order of the strategy in full.
ExFillOrder ==
    /\ \E i \in 1 .. Len(ex_orders) :
          /\ ex_orders[i].status = "NEW"
          /\ ex_orders' = [ex_orders EXCEPT ![i].status = "FILLED"]
    /\ UNCHANGED <<grid_pc, grid_strategy, active_grids, gmon_pc, gmon_idx,
                   order_status, stop_pc, stop_idx, stop_size, stop_result,
                   stop_cancel_error, last_counter, credits>>
    /\ UNCHANGED <<ocoVars, twapVars, ladderVars, gridAux>>

(***************************************************************************)
(* Grid: _monitor_grid_strategy                                            *)
(***************************************************************************)

\* The dict the monitor is iterating.
MonitoredOrders == IF gmon_pc = "buy" THEN grid_strategy.buy_orders
                   ELSE grid_strategy.sell_orders

\* A loop test that looks at the stop event only, never at the status.
GridLoopTopIgnoringStatus ==
    /\ gmon_pc = "top"
    /\ ~stop_monitoring
    /\ gmon_pc' = "buy"
    /\ gmon_idx' = 1
    /\ UNCHANGED <<grid_pc, grid_strategy, active_grids, ex_orders, order_status,
                   stop_pc, stop_idx, stop_size, stop_result, stop_cancel_error,
                   last_counter, credits>>
    /\ gmon_poll_failed' = FALSE
    /\ UNCHANGED <<ocoVars, twapVars, ladderVars, stop_acked>>

\* Top of the while loop: the pass begins while the status is ACTIVE, and
\* the thread ends otherwise.
GridLoopTop ==
    /\ gmon_pc = "top"
    /\ ~stop_monitoring
    /\ IF grid_strategy.status = "ACTIVE"
       THEN /\ gmon_pc' = "buy"
            /\ gmon_idx' = 1
       ELSE /\ gmon_pc' = "done"
            /\ gmon_idx' = 0
    /\ UNCHANGED <<grid_pc, grid_strategy, active_grids, ex_orders, order_status,
                   stop_pc, stop_idx, stop_size, stop_result, stop_cancel_error,
                   last_counter, credits>>
    /\ gmon_poll_failed' = FALSE
    /\ UNCHANGED <<ocoVars, twapVars, ladderVars, stop_acked>>

\* The iteration over one dict is exhausted: on to sell_orders, or to the
\* sleep(10) that ends the pass.
GridNextDict ==
    /\ gmon_pc \in {"buy", "sell"}
    /\ gmon_idx > Len(MonitoredOrders)
    /\ IF gmon_pc = "buy"
       THEN /\ gmon_pc' = "sell"
            /\ gmon_idx' = 1
       ELSE /\ gmon_pc' = "top"
            /\ gmon_idx' = 0
    /\ UNCHANGED <<grid_pc, grid_strategy, active_grids, ex_orders, order_status,
                   stop_pc, stop_idx, stop_size, stop_result, stop_cancel_error,
                   last_counter, credits>>
    /\ UNCHANGED <<ocoVars, twapVars, ladderVars, gridAux>>

\* An entry whose recorded status is FILLED is passed over.
GridSkipFilled ==
    /\ gmon_pc \in {"buy", "sell"}
    /\ gmon_idx <= Len(MonitoredOrders)
    /\ MonitoredOrders[gmon_idx].status = "FILLED"
    /\ gmon_idx' = gmon_idx + 1
    /\ UNCHANGED <<grid_pc, grid_strategy, active_grids, ex_orders, gmon_pc,
                   order_status, stop_pc, stop_idx, stop_size, stop_result,
                   stop_cancel_error, last_counter, credits>>
    /\ UNCHANGED <<ocoVars, twapVars, ladderVars, gridAux>>

\* get_order_status on the entry: a FILLED order goes to the fill handler.
GridPoll ==
    /\ gmon_pc \in {"buy", "sell"}
    /\ gmon_idx <= Len(MonitoredOrders)
    /\ LET e == MonitoredOrders[gmon_idx]
       IN /\ e.status # "FILLED"
          /\ IF ex_orders[e.order_id].status = "FILLED"
             THEN /\ order_status' =
                         [level |-> e.level,
                          side |-> IF gmon_pc = "buy" THEN "BUY" ELSE "SELL",
                          order_id |-> e.order_id]
                  /\ gmon_pc' = IF gmon_pc = "buy" THEN "handle_buy" ELSE "handle_sell"
                  /\ gmon_idx' = gmon_idx
             ELSE /\ gmon_idx' = gmon_idx + 1
                  /\ UNCHANGED <<gmon_pc, order_status>>
    /\ UNCHANGED <<grid_pc, grid_strategy, active_grids, ex_orders, stop_pc,
                   stop_idx, stop_size, stop_result, stop_cancel_error,
                   last_counter, credits>>
    /\ UNCHANGED <<ocoVars, twapVars, ladderVars, gridAux>>

\* get_order_status raises: logged, sleep(30), back to the top of the loop.
GridPollError ==
    /\ gmon_pc \in {"buy", "sell"}
    /\ gmon_idx <= Len(MonitoredOrders)
    /\ MonitoredOrders[gmon_idx].status # "FILLED"
    /\ gmon_pc' = "top"
    /\ gmon_idx' = 0
    /\ UNCHANGED <<grid_pc, grid_strategy, active_grids, ex_orders, order_status,
                   stop_pc, stop_idx, stop_size, stop_result, stop_cancel_error,
                   last_counter, credits>>
    /\ gmon_poll_failed' = TRUE
    /\ UNCHANGED <<ocoVars, twapVars, ladderVars, stop_acked>>

(***************************************************************************)
(* Grid: _handle_grid_order_fill                                           *)
(***************************************************************************)

\* A counter order placed at the level of the fill itself.
CounterTargetSameLevel(g, filled_level, side) == filled_level

\* A counter target computed without looking at the ends of the ladder.
CounterTargetNoBoundary(g, filled_level, side) ==
    IF side = "SELL" THEN filled_level + 1 ELSE filled_level - 1

\* Level a counter order of the given side goes to after a fill at
\* filled_level, or 0 when there is none.
CounterTarget(g, filled_level, side) ==
    IF side = "SELL" /\ filled_level < Len(g.grid_levels)
    THEN filled_level + 1
    ELSE IF side = "BUY" /\ filled_level > 1
    THEN filled_level - 1
    ELSE 0

\* The trades _calculate_grid_profit looks at: the last ProfitWindow ones,
\* as indices into executed_trades.
ProfitWindow == 10

RecentTrades(trades) ==
    IF Len(trades) > ProfitWindow THEN (Len(trades) - ProfitWindow + 1) .. Len(trades)
    ELSE 1 .. Len(trades)

\* The pairs one call of _calculate_grid_profit credits: every BUY among the
\* recent trades with the first recent SELL above it in price and level.
MatchedPairs(trades) ==
    IF Len(trades) < 2 THEN {}
    ELSE {<<b, sl>> \in RecentTrades(trades) \X RecentTrades(trades) :
            /\ trades[b].side = "BUY"
            /\ trades[sl].side = "SELL"
            /\ trades[sl].price > trades[b].price
            /\ trades[sl].level > trades[b].level
            /\ \A k \in RecentTrades(trades) :
                  (k < sl /\ trades[k].side = "SELL")
                      => ~(/\ trades[k].price > trades[b].price
                           /\ trades[k].level > trades[b].level)}

PairProfit(trades, pair) ==
    (trades[pair[2]].price - trades[pair[1]].price)
        * Min(trades[pair[1]].quantity, trades[pair[2]].quantity)

RECURSIVE SumProfit(_, _)
SumProfit(trades, pairs) ==
    IF pairs = {} THEN 0
    ELSE LET pr == CHOOSE x \in pairs : TRUE
         IN PairProfit(trades, pr) + SumProfit(trades, pairs \ {pr})

\* The pairs of a set in the order the nested loops credit them.
RECURSIVE PairsInOrder(_)
PairsInOrder(pairs) ==
    IF pairs = {} THEN <<>>
    ELSE LET pr == CHOOSE x \in pairs : \A y \in pairs : x[1] <= y[1]
         IN <<pr>> \o PairsInOrder(pairs \ {pr})

\* _calculate_grid_profit
CalculateGridProfit(g) ==
    [g EXCEPT !.total_profit = @ + SumProfit(g.executed_trades,
                                            MatchedPairs(g.executed_trades))]

\* A handler that records the trade and leaves the entry as it was.
RecordTradeNoMark(g, st) ==
    LET o == ex_orders[st.order_id]
    IN [g EXCEPT !.executed_trades =
           Append(@, [level |-> st.level, side |-> st.side,
                      quantity |-> o.quantity, price |-> o.price,
                      order_id |-> st.order_id])]

\* The trade recorded and the entry marked FILLED, before the counter order.
RecordTrade(g, st) ==
    LET o == ex_orders[st.order_id]
        withTrade == [g EXCEPT !.executed_trades =
                         Append(@, [level |-> st.level, side |-> st.side,
                                    quantity |-> o.quantity, price |-> o.price,
                                    order_id |-> st.order_id])]
    IN IF st.side = "BUY"
       THEN [withTrade EXCEPT !.buy_orders = MarkFilled(@, st.level)]
       ELSE [withTrade EXCEPT !.sell_orders = MarkFilled(@, st.level)]

\* _place_counter_order stores the order the exchange accepted.
StoreCounterOrder(g, side, target, oid) ==
    IF side = "SELL"
    THEN [g EXCEPT !.sell_orders = Put(@, target, oid)]
    ELSE [g EXCEPT !.buy_orders = Put(@, target, oid)]

\* _handle_grid_order_fill: the trade is recorded, the entry marked FILLED,
\* the counter order placed one level up (after a BUY) or down (after a
\* SELL) unless the fill was at the boundary, and the profit recomputed.
\* place_limit_order raising is logged by _place_counter_order.
GridHandleFill ==
    /\ gmon_pc \in {"handle_buy", "handle_sell"}
    /\ LET st == order_status
           side == IF st.side = "BUY" THEN "SELL" ELSE "BUY"
           g1 == RecordTrade(grid_strategy, st)
           target == CounterTarget(g1, st.level, side)
       IN IF target = 0
          THEN /\ grid_strategy' = CalculateGridProfit(g1)
               /\ ex_orders' = ex_orders
               /\ last_counter' = [filled_level |-> st.level, side |-> side,
                                   target |-> target, outcome |-> "none"]
          ELSE \E accepted \in BOOLEAN :
                  IF accepted /\ Len(ex_orders) < MaxOrders
                  THEN /\ ex_orders' =
                              Append(ex_orders,
                                     [side |-> side, level |-> target,
                                      price |-> g1.grid_levels[target].price,
                                      quantity |-> g1.quantity_per_grid,
                                      status |-> "NEW"])
                       /\ grid_strategy' =
                              CalculateGridProfit(
                                  StoreCounterOrder(g1, side, target,
                                                    Len(ex_orders) + 1))
                       /\ last_counter' = [filled_level |-> st.level, side |-> side,
                                           target |-> target, outcome |-> "placed"]
                  ELSE /\ ex_orders' = ex_orders
                       /\ grid_strategy' = CalculateGridProfit(g1)
                       /\ last_counter' = [filled_level |-> st.level, side |-> side,
                                           target |-> target, outcome |-> "rejected"]
    /\ credits' = credits \o PairsInOrder(
                      MatchedPairs(Append(grid_strategy.executed_trades,
                                          [level |-> order_status.level,
                                           side |-> order_status.side,
                                           quantity |-> ex_orders[order_status.order_id].quantity,
                                           price |-> ex_orders[order_status.order_id].price,
                                           order_id |-> order_status.order_id])))
    /\ gmon_pc' = IF gmon_pc = "handle_buy" THEN "buy" ELSE "sell"
    /\ gmon_idx' = gmon_idx + 1
    /\ order_status' = NoOrderStatus
    /\ UNCHANGED <<grid_pc, active_grids, stop_pc, stop_idx, stop_size,
                   stop_result, stop_cancel_error>>
    /\ UNCHANGED <<ocoVars, twapVars, ladderVars, gridAux>>

(***************************************************************************)
(* Grid: stop_grid_strategy                                                *)
(***************************************************************************)

\* The dict the stop call is iterating.
StoppedOrders == IF stop_pc = "buy" THEN grid_strategy.buy_orders
                 ELSE grid_strategy.sell_orders

\* The registry lookup: an unknown id returns False at once.
StopCall ==
    /\ stop_pc = "idle"
    /\ stop_cancel_error' = FALSE
    /\ IF active_grids
       THEN /\ stop_pc' = "buy"
            /\ stop_idx' = 1
            /\ stop_size' = Len(grid_strategy.buy_orders)
            /\ stop_result' = "none"
       ELSE /\ stop_pc' = "returned"
            /\ stop_result' = "not_found"
            /\ UNCHANGED <<stop_idx, stop_size>>
    /\ UNCHANGED <<grid_pc, grid_strategy, active_grids, ex_orders, gmon_pc,
                   gmon_idx, order_status, last_counter, credits>>
    /\ UNCHANGED <<ocoVars, twapVars, ladderVars, gridAux>>

\* The dict grew since the iteration began: the iterator raises RuntimeError,
\* the outer except returns False and the status is left as it was.
StopIterationError ==
    /\ stop_pc \in {"buy", "sell"}
    /\ Len(StoppedOrders) # stop_size
    /\ stop_pc' = "returned"
    /\ stop_result' = "false"
    /\ UNCHANGED <<grid_pc, grid_strategy, active_grids, ex_orders, gmon_pc,
                   gmon_idx, order_status, stop_idx, stop_size,
                   stop_cancel_error, last_counter, credits>>
    /\ UNCHANGED <<ocoVars, twapVars, ladderVars, gridAux>>

\* One entry of the iteration: an entry not recorded FILLED gets one cancel
\* call, whose failure is swallowed.
StopCancelEntry ==
    /\ stop_pc \in {"buy", "sell"}
    /\ Len(StoppedOrders) = stop_size
    /\ stop_idx <= Len(StoppedOrders)
    /\ LET e == StoppedOrders[stop_idx]
       IN IF e.status # "FILLED"
          THEN \E o \in CancelOutcomes(ex_orders[e.order_id].status) :
                  /\ ex_orders' = [ex_orders EXCEPT ![e.order_id].status =
                                       AfterCancel(@, o)]
                  /\ stop_cancel_error' = (stop_cancel_error \/ o = "error")
          ELSE UNCHANGED <<ex_orders, stop_cancel_error>>
    /\ stop_idx' = stop_idx + 1
    /\ UNCHANGED <<grid_pc, grid_strategy, active_grids, gmon_pc, gmon_idx,
                   order_status, stop_pc, stop_size, stop_result, last_counter,
                   credits>>
    /\ UNCHANGED <<ocoVars, twapVars, ladderVars, gridAux>>

\* buy_orders is exhausted: the iteration over sell_orders begins.
StopNextDict ==
    /\ stop_pc = "buy"
    /\ Len(StoppedOrders) = stop_size
    /\ stop_idx > Len(StoppedOrders)
    /\ stop_pc' = "sell"
    /\ stop_idx' = 1
    /\ stop_size' = Len(grid_strategy.sell_orders)
    /\ UNCHANGED <<grid_pc, grid_strategy, active_grids, ex_orders, gmon_pc,
                   gmon_idx, order_status, stop_result, stop_cancel_error,
                   last_counter, credits>>
    /\ UNCHANGED <<ocoVars, twapVars, ladderVars, gridAux>>

\* A stop that also takes the strategy out of the registry.
StopFinishRemoving ==
    /\ stop_pc = "sell"
    /\ Len(StoppedOrders) = stop_size
    /\ stop_idx > Len(StoppedOrders)
    /\ grid_strategy' = [grid_strategy EXCEPT !.status = "STOPPED"]
    /\ active_grids' = FALSE
    /\ stop_pc' = "returned"
    /\ stop_result' = "true"
    /\ stop_acked' = TRUE
    /\ UNCHANGED <<grid_pc, ex_orders, gmon_pc, gmon_idx,
                   order_status, stop_idx, stop_size, stop_cancel_error,
                   last_counter, credits>>
    /\ UNCHANGED <<ocoVars, twapVars, ladderVars, gmon_poll_failed>>

\* sell_orders is exhausted: the status becomes STOPPED and True is returned.
StopFinish ==
    /\ stop_pc = "sell"
    /\ Len(StoppedOrders) = stop_size
    /\ stop_idx > Len(StoppedOrders)
    /\ grid_strategy' = [grid_strategy EXCEPT !.status = "STOPPED"]
    /\ stop_pc' = "returned"
    /\ stop_result' = "true"
    /\ stop_acked' = TRUE
    /\ UNCHANGED <<grid_pc, active_grids, ex_orders, gmon_pc, gmon_idx,
                   order_status, stop_idx, stop_size, stop_cancel_error,
                   last_counter, credits>>
    /\ UNCHANGED <<ocoVars, twapVars, ladderVars, gmon_poll_failed>>

\* The caller is free to call stop_grid_strategy again.
StopAgain ==
    /\ stop_pc = "returned"
    /\ stop_pc' = "idle"
    /\ UNCHANGED <<grid_pc, grid_strategy, active_grids, ex_orders, gmon_pc,
                   gmon_idx, order_status, stop_idx, stop_size, stop_result,
                   stop_cancel_error, last_counter, credits>>
    /\ UNCHANGED <<ocoVars, twapVars, ladderVars, gridAux>>

GridNext ==
    \/ GridStart
    \/ GridStartFail
    \/ ExFillOrder
    \/ GridLoopTop
    \/ GridNextDict
    \/ GridSkipFilled
    \/ GridPoll
    \/ GridPollError
    \/ GridHandleFill
    \/ StopCall
    \/ StopIterationError
    \/ StopCancelEntry
    \/ StopNextDict
    \/ StopFinish
    \/ StopAgain

\* One step of the monitor's loop outside the fill handler.
GridLoopStep ==
    \/ GridLoopTop
    \/ GridNextDict
    \/ GridSkipFilled
    \/ GridPoll
    \/ GridPollError

(***************************************************************************)
(* Grid: properties                                                        *)
(***************************************************************************)

\* An order of the strategy is open on the exchange at level l.
RestingAt(ex, l) ==
    \E i \in 1 .. Len(ex) : ex[i].level = l /\ ex[i].status \in OpenStatuses

\* The dict of strategy g for orders of the given side.
OrdersOfSide(g, side) == IF side = "SELL" THEN g.sell_orders ELSE g.buy_orders

\* The dict of the given side records at level l an order that is open on
\* the exchange with that side and the price of level l.
RecordedResting(g, ex, side, l) ==
    /\ HasKey(OrdersOfSide(g, side), l)
    /\ LET e == Entry(OrdersOfSide(g, side), l)
       IN /\ e.status # "FILLED"
          /\ ex[e.order_id].side = side
          /\ ex[e.order_id].level = l
          /\ ex[e.order_id].price = g.grid_levels[l].price
          /\ ex[e.order_id].status \in OpenStatuses

\* The step is one run of _handle_grid_order_fill.
HandledFill ==
    Len(grid_strategy'.executed_trades) > Len(grid_strategy.executed_trades)

\* The fill being handled has a counter level with nothing resting on it.
CounterLevelFree ==
    \/ /\ order_status.side = "BUY"
       /\ order_status.level < grid_strategy.grid_count
       /\ ~RestingAt(ex_orders, order_status.level + 1)
    \/ /\ order_status.side = "SELL"
       /\ order_status.level > 1
       /\ ~RestingAt(ex_orders, order_status.level - 1)

\* C4 (as stated): after the monitor handles a BUY fill at level L with
\* 1 <= L < gridCount and nothing resting at L+1, a SELL order at the price
\* of level L+1 is resting and recorded in sell_orders[L+1]; symmetrically a
\* SELL fill at L > 1 with nothing resting at L-1 leaves a BUY order at the
\* price of level L-1 recorded in buy_orders[L-1].
C4_CounterOrderAppears ==
    [][(HandledFill /\ CounterLevelFree) =>
          IF order_status.side = "BUY"
          THEN RecordedResting(grid_strategy', ex_orders', "SELL",
                               order_status.level + 1)
          ELSE RecordedResting(grid_strategy', ex_orders', "BUY",
                               order_status.level - 1)]_vars

\* C4 (amended): when the monitor handles a BUY fill at level L with
\* 1 <= L < gridCount and nothing resting at L+1, it makes exactly one
\* attempt to place a SELL order at level L+1, and if the exchange accepts
\* it that order is resting at the price of level L+1 and recorded in
\* sell_orders[L+1]; if the exchange rejects it nothing is placed and the
\* dicts record no new order.  Symmetrically for a SELL fill at L > 1 and a
\* BUY order at L-1.
C4_CounterOrderWhenAccepted ==
    [][(HandledFill /\ CounterLevelFree) =>
          LET side == IF order_status.side = "BUY" THEN "SELL" ELSE "BUY"
              target == IF order_status.side = "BUY"
                        THEN order_status.level + 1
                        ELSE order_status.level - 1
          IN /\ last_counter'.filled_level = order_status.level
             /\ last_counter'.side = side
             /\ last_counter'.target = target
             /\ last_counter'.outcome \in {"placed", "rejected"}
             /\ last_counter'.outcome = "placed" =>
                   /\ RecordedResting(grid_strategy', ex_orders', side, target)
                   /\ Len(ex_orders') = Len(ex_orders) + 1
                   /\ Entry(OrdersOfSide(grid_strategy', side), target).order_id
                          = Len(ex_orders')
             /\ last_counter'.outcome = "rejected" =>
                   /\ ex_orders' = ex_orders
                   /\ ~HasKey(OrdersOfSide(grid_strategy', side), target)
                         \/ (/\ HasKey(OrdersOfSide(grid_strategy, side), target)
                             /\ Entry(OrdersOfSide(grid_strategy', side), target)
                                  = Entry(OrdersOfSide(grid_strategy, side), target))]_vars

\* C4 witness: a counter SELL was accepted one level above a BUY fill, at a
\* level where the strategy had never had an order before.
C4_Witness ==
    /\ last_counter.outcome = "placed"
    /\ last_counter.side = "SELL"
    /\ last_counter.target = last_counter.filled_level + 1
    /\ \A i \in 1 .. Len(ex_orders) :
          ex_orders[i].level = last_counter.target => i = Len(ex_orders)
    /\ RecordedResting(grid_strategy, ex_orders, "SELL", last_counter.target)

\* C5: a counter order is never duplicated: every open order of the
\* strategy is the one its side's dict records for its level, so at most one
\* open order of a side exists per level.
C5_NoDuplicateCounterOrder ==
    \A i \in 1 .. Len(ex_orders) :
        ex_orders[i].status \in OpenStatuses =>
            LET d == IF ex_orders[i].side = "SELL" THEN grid_strategy.sell_orders
                     ELSE grid_strategy.buy_orders
            IN /\ HasKey(d, ex_orders[i].level)
               /\ Entry(d, ex_orders[i].level).order_id = i

\* C9: once stop_grid_strategy has returned True with every cancel call
\* having succeeded and the monitor has terminated, no order of the
\* strategy is open on the exchange.
C9_NoOpenOrderAfterStop ==
    (/\ stop_result = "true"
     /\ ~stop_cancel_error
     /\ gmon_pc = "done")
        => \A i \in 1 .. Len(ex_orders) : ex_orders[i].status \notin OpenStatuses

\* C10: every executed trade takes part in at most one credited pair, and
\* total_profit is the sum of the profits of the credited pairs.
C10_EachPairCreditedOnce ==
    /\ \A i, j \in 1 .. Len(credits) :
          i # j => /\ credits[i][1] # credits[j][1]
                   /\ credits[i][2] # credits[j][2]
    /\ grid_strategy.total_profit =
          SumProfit(grid_strategy.executed_trades,
                    {credits[i] : i \in 1 .. Len(credits)})

\* The strategy is as _place_initial_grid_orders left it: started, and no
\* fill handled yet.
Seeded ==
    /\ grid_pc = "started"
    /\ grid_strategy.executed_trades = <<>>

\* The orders the exchange holds for level l and the given side.
OrdersAt(l, side) ==
    {i \in 1 .. Len(ex_orders) : ex_orders[i].level = l /\ ex_orders[i].side = side}

\* Level l was seeded with one order of the given side at its price, recorded
\* in that side's dict, or with none if its placement failed.
SeededWith(l, side) ==
    LET lv == grid_strategy.grid_levels[l]
        d == OrdersOfSide(grid_strategy, side)
    IN /\ lv.order_type = side
       /\ IF lv.status = "FAILED"
          THEN OrdersAt(l, side) = {} /\ ~HasKey(d, l)
          ELSE /\ lv.status = "PLACED"
               /\ Cardinality(OrdersAt(l, side)) = 1
               /\ HasKey(d, l)
               /\ Entry(d, l).order_id \in OrdersAt(l, side)
               /\ ex_orders[Entry(d, l).order_id].price = lv.price
               /\ ex_orders[Entry(d, l).order_id].quantity
                      = grid_strategy.quantity_per_grid

\* Level l holds no order of the given side.
NothingAt(l, side) ==
    /\ OrdersAt(l, side) = {}
    /\ ~HasKey(OrdersOfSide(grid_strategy, side), l)

\* C12: seeding places exactly one limit BUY at every level priced strictly
\* below the current price, exactly one limit SELL at every level strictly
\* above it and nothing at a level priced at it (a level whose placement
\* failed holds nothing); with every placement succeeding buy_orders and
\* sell_orders hold exactly those levels.
C12_SeedingByRole ==
    Seeded =>
        /\ \A l \in 1 .. Len(grid_strategy.grid_levels) :
              LET lv == grid_strategy.grid_levels[l]
              IN /\ lv.price < grid_strategy.current_price
                       => SeededWith(l, "BUY") /\ NothingAt(l, "SELL")
                 /\ lv.price > grid_strategy.current_price
                       => SeededWith(l, "SELL") /\ NothingAt(l, "BUY")
                 /\ lv.price = grid_strategy.current_price
                       => /\ lv.order_type = "MARKET"
                          /\ lv.status = "PENDING"
                          /\ NothingAt(l, "BUY")
                          /\ NothingAt(l, "SELL")
        /\ (\A l \in 1 .. Len(grid_strategy.grid_levels) :
               grid_strategy.grid_levels[l].status # "FAILED")
              => /\ {grid_strategy.buy_orders[i].level :
                        i \in 1 .. Len(grid_strategy.buy_orders)}
                    = {l \in 1 .. Len(grid_strategy.grid_levels) :
                          grid_strategy.grid_levels[l].price
                              < grid_strategy.current_price}
                 /\ {grid_strategy.sell_orders[i].level :
                        i \in 1 .. Len(grid_strategy.sell_orders)}
                    = {l \in 1 .. Len(grid_strategy.grid_levels) :
                          grid_strategy.grid_levels[l].price
                              > grid_strategy.current_price}
                 /\ Len(ex_orders) = Len(grid_strategy.buy_orders)
                                         + Len(grid_strategy.sell_orders)

\* C12 witness: a ladder with a level below, a level at and a level above
\* the current price was seeded with every placement succeeding.
C12_Witness ==
    /\ Seeded
    /\ \E a, b, c \in 1 .. Len(grid_strategy.grid_levels) :
          /\ grid_strategy.grid_levels[a].order_type = "BUY"
          /\ grid_strategy.grid_levels[b].order_type = "MARKET"
          /\ grid_strategy.grid_levels[c].order_type = "SELL"
    /\ Len(grid_strategy.buy_orders) = 1
    /\ Len(grid_strategy.sell_orders) = 1
    /\ Len(ex_orders) = 2

\* No stop_grid_strategy call has been made.
NeverStopped == stop_pc = "idle" /\ stop_result = "none"

\* Level l has a BUY or SELL role (it is not priced at the current price).
HasRole(l) == grid_strategy.grid_levels[l].order_type \in {"BUY", "SELL"}

\* C23: after a seeding in which the placement of some level failed, every
\* such level is marked FAILED and has no entry in buy_orders or sell_orders
\* (and no order on the exchange), every other level with a role was
\* attempted and is PLACED with its entry, and the strategy is registered
\* and, until someone stops it, ACTIVE with its monitor running.
C23_FailedLevelDoesNotAbort ==
    (Seeded /\ \E l \in 1 .. Len(grid_strategy.grid_levels) :
                  grid_strategy.grid_levels[l].status = "FAILED")
    => /\ \A l \in 1 .. Len(grid_strategy.grid_levels) :
             LET lv == grid_strategy.grid_levels[l]
             IN IF lv.status = "FAILED"
                THEN NothingAt(l, "BUY") /\ NothingAt(l, "SELL")
                ELSE HasRole(l) =>
                        /\ lv.status = "PLACED"
                        /\ HasKey(OrdersOfSide(grid_strategy, lv.order_type), l)
       /\ active_grids
       /\ NeverStopped =>
              /\ grid_strategy.status = "ACTIVE"
              /\ gmon_pc \notin {"off", "done"}

\* A strategy whose first level failed and whose last level was placed is
\* being polled by its monitor.
C23_Witness ==
    /\ Seeded
    /\ grid_strategy.grid_levels[1].status = "FAILED"
    /\ grid_strategy.grid_levels[grid_strategy.grid_count].status = "PLACED"
    /\ grid_strategy.status = "ACTIVE"
    /\ gmon_pc = "sell"

(***************************************************************************)
(* Grid ladder: _calculate_grid_levels called on its own                   *)
(***************************************************************************)

\* Widest range offered to the ladder calculator, in steps of half a tick.
MaxLadderSteps == 6

\* Prices offered as lower_price, upper_price and current price: multiples
\* of half a tick, so that raw level prices fall on, between and half way
\* between ticks.
LadderPrices ==
    {lower + k * (TickSize \div 2) : lower \in GridLowers, k \in 0 .. MaxLadderSteps}

\* The tick multiples a level price of such a range can be snapped to.
LadderTicks ==
    {p \div TickSize : p \in LadderPrices} \cup {p \div TickSize + 1 : p \in LadderPrices}

\* round(num / den) for positive integers: the nearest integer.  When the
\* quotient lies half way, the float handed to round() is the half or a
\* neighbour of it, so either integer can come out.
TickRoundings(num, den) ==
    LET q == num \div den
        r == num % den
    IN IF 2 * r < den THEN {q}
       ELSE IF 2 * r > den THEN {q + 1}
       ELSE {q, q + 1}

\* The prices level i + 1 can get.
LevelPriceChoices(lower, upper, count, i) ==
    {r * TickSize :
        r \in TickRoundings(lower * (count - 1) + i * (upper - lower),
                            (count - 1) * TickSize)}

\* GridOrderRequest accepts the arguments.
GridRequestValid(lower, upper, count) ==
    /\ count > 1
    /\ lower > 0
    /\ upper > lower

NoLadderInput == [lower |-> 0, upper |-> 0, count |-> 0, current |-> 0]

\* Clock seconds that go by while one manager is in use.
MaxClock == 2

\* Strategies started through one manager.
MaxStrategies == 3

ClockSeconds == 0 .. MaxClock

\* No strategy has been built: NoGridStrategy with the base_side field.
NoSidedGrid ==
    [grid_count |-> 0, quantity_per_grid |-> 0, current_price |-> 0,
     grid_levels |-> <<>>, buy_orders |-> <<>>, sell_orders |-> <<>>,
     executed_trades |-> <<>>, total_profit |-> 0, status |-> "NONE",
     base_side |-> "NONE"]

LadderInit ==
    /\ ladder_pc = "idle"
    /\ ladder_in = NoLadderInput
    /\ ladder_levels = <<>>
    /\ ladder_counter = NoCounter
    /\ sided_pc = "idle"
    /\ sided_grid = NoSidedGrid
    /\ sided_orders = <<>>
    /\ reg_clock = 0
    /\ reg_entries = [id \in ClockSeconds |-> 0]
    /\ reg_tasks = <<>>

\* The levels _calculate_grid_levels returns for accepted arguments.
LadderCall ==
    /\ ladder_pc = "idle"
    /\ \E lower \in LadderPrices, upper \in LadderPrices,
          current \in LadderPrices, count \in GridCounts :
          /\ GridRequestValid(lower, upper, count)
          /\ ladder_in' = [lower |-> lower, upper |-> upper, count |-> count,
                           current |-> current]
          /\ \E prices \in [1 .. count -> {t * TickSize : t \in LadderTicks}] :
                /\ \A i \in 1 .. count :
                      prices[i] \in LevelPriceChoices(lower, upper, count, i - 1)
                /\ ladder_levels' =
                       [i \in 1 .. count |->
                           [level |-> i, price |-> prices[i],
                            order_type |-> OrderType(prices[i], current),
                            status |-> "PENDING"]]
    /\ ladder_pc' = "returned"
    /\ UNCHANGED <<ladder_counter, sidedVars, regVars>>
    /\ UNCHANGED <<ocoVars, twapVars, gridVars>>

\* Arguments GridOrderRequest refuses: the ValueError reaches the caller.
LadderReject ==
    /\ ladder_pc = "idle"
    /\ \E lower \in LadderPrices, upper \in LadderPrices, count \in GridCounts :
          /\ ~GridRequestValid(lower, upper, count)
          /\ ladder_in' = [lower |-> lower, upper |-> upper, count |-> count,
                           current |-> 0]
    /\ ladder_pc' = "rejected"
    /\ UNCHANGED <<ladder_levels, ladder_counter, sidedVars, regVars>>
    /\ UNCHANGED <<ocoVars, twapVars, gridVars>>

\* _place_counter_order called on the returned ladder for a fill at any
\* level and either counter side: no order without a target, otherwise one
\* place_limit_order that the exchange accepts or refuses.
LadderCounter ==
    /\ ladder_pc = "returned"
    /\ \E filled_level \in 1 .. Len(ladder_levels), side \in {"BUY", "SELL"} :
          LET target == CounterTarget([grid_levels |-> ladder_levels],
                                      filled_level, side)
          IN \E accepted \in BOOLEAN :
                ladder_counter' =
                    [filled_level |-> filled_level, side |-> side,
                     target |-> target,
                     outcome |-> IF target = 0 THEN "none"
                                 ELSE IF accepted THEN "placed"
                                 ELSE "rejected"]
    /\ ladder_pc' = "countered"
    /\ UNCHANGED <<ladder_in, ladder_levels, sidedVars, regVars>>
    /\ UNCHANGED <<ocoVars, twapVars, gridVars>>

LadderNext ==
    \/ LadderCall
    \/ LadderReject
    \/ LadderCounter

(***************************************************************************)
(* Grid ladder: properties                                                 *)
(***************************************************************************)

\* C11: the ladder returned for a valid range has grid_count levels, its
\* prices are strictly increasing, the first is lower_price snapped to the
\* tick and the last is upper_price snapped to the tick.
C11_LadderStrictlyIncreasing ==
    ladder_pc \in {"returned", "countered"} =>
        /\ Len(ladder_levels) = ladder_in.count
        /\ \A i \in 1 .. Len(ladder_levels) - 1 :
              ladder_levels[i].price < ladder_levels[i + 1].price
        /\ ladder_levels[1].price
              \in {r * TickSize : r \in TickRoundings(ladder_in.lower, TickSize)}
        /\ ladder_levels[Len(ladder_levels)].price
              \in {r * TickSize : r \in TickRoundings(ladder_in.upper, TickSize)}

\* C26: a counter SELL asked for after a fill at the top level and a counter
\* BUY asked for after a fill at level 1 place no order, and every counter
\* order that is attempted goes to a level within 1 .. grid_count, next to
\* the level of the fill.
C26_BoundaryHasNoCounter ==
    ladder_pc = "countered" =>
        LET c == ladder_counter
        IN /\ (c.side = "SELL" /\ c.filled_level = ladder_in.count)
                  => c.outcome = "none"
           /\ (c.side = "BUY" /\ c.filled_level = 1) => c.outcome = "none"
           /\ c.outcome # "none" =>
                  /\ c.target \in 1 .. ladder_in.count
                  /\ c.target = IF c.side = "SELL" THEN c.filled_level + 1
                                ELSE c.filled_level - 1

\* A counter SELL was asked for after a fill at the top level of a ladder
\* of three levels, and none was placed.
C26_Witness ==
    /\ ladder_pc = "countered"
    /\ ladder_in.count = 3
    /\ ladder_counter = [filled_level |-> 3, side |-> "SELL", target |-> 0,
                         outcome |-> "none"]

(***************************************************************************)
(* Grid direction: execute_grid_strategy called with a base_side           *)
(***************************************************************************)

\* The values the --side option and the base_side argument take.
BaseSides == {"BOTH", "BUY_ONLY", "SELL_ONLY"}

\* execute_grid_strategy(..., base_side): the argument is stored in the
\* strategy and shown in the summary table; the levels are computed and the
\* initial orders placed as for any strategy.
SidedStart ==
    /\ sided_pc = "idle"
    /\ \E base_side \in BaseSides, count \in GridCounts, lower \in GridLowers,
          upper \in GridUppers, current \in GridCurrents,
          quantity \in GridQuantities :
          \E failed \in SUBSET (1 .. count) :
             LET g0 == [NoSidedGrid EXCEPT
                           !.grid_count = count,
                           !.quantity_per_grid = quantity,
                           !.current_price = current,
                           !.grid_levels =
                               CalculateGridLevels(lower, upper, count, current),
                           !.status = "ACTIVE",
                           !.base_side = base_side]
                 seeded == PlaceInitialGridOrders(g0, <<>>, failed, 1)
             IN /\ \A i \in failed : g0.grid_levels[i].order_type # "MARKET"
                /\ sided_grid' = seeded.grid
                /\ sided_orders' = seeded.ex
    /\ sided_pc' = "seeded"
    /\ UNCHANGED <<ladder_pc, ladder_in, ladder_levels, ladder_counter, regVars>>
    /\ UNCHANGED <<ocoVars, twapVars, gridVars>>

\* A resting order of the strategy fills and the monitor handles the fill:
\* the entry is marked FILLED and _place_counter_order places the order of
\* the other side one level on, which the exchange accepts or refuses.
SidedFill ==
    /\ sided_pc \in {"seeded", "countered"}
    /\ \E oid \in 1 .. Len(sided_orders) :
          LET o == sided_orders[oid]
              side == IF o.side = "BUY" THEN "SELL" ELSE "BUY"
              g1 == IF o.side = "BUY"
                    THEN [sided_grid EXCEPT !.buy_orders = MarkFilled(@, o.level)]
                    ELSE [sided_grid EXCEPT !.sell_orders = MarkFilled(@, o.level)]
              target == CounterTarget(g1, o.level, side)
              filled == [sided_orders EXCEPT ![oid].status = "FILLED"]
          IN /\ o.status = "NEW"
             /\ PolledIn(sided_grid, oid)
             /\ \E accepted \in BOOLEAN :
                   IF target # 0 /\ accepted /\ Len(sided_orders) < MaxOrders
                   THEN /\ sided_orders' =
                               Append(filled,
                                      [side |-> side, level |-> target,
                                       price |-> g1.grid_levels[target].price,
                                       quantity |-> g1.quantity_per_grid,
                                       status |-> "NEW"])
                        /\ sided_grid' = StoreCounterOrder(g1, side, target,
                                                           Len(sided_orders) + 1)
                   ELSE /\ sided_orders' = filled
                        /\ sided_grid' = g1
    /\ sided_pc' = "countered"
    /\ UNCHANGED <<ladder_pc, ladder_in, ladder_levels, ladder_counter, regVars>>
    /\ UNCHANGED <<ocoVars, twapVars, gridVars>>

\* C33: a BUY_ONLY strategy has sent no SELL order and a SELL_ONLY strategy
\* no BUY order, at seeding and as counter orders.
C33_BaseSideRestrictsOrders ==
    \A oid \in 1 .. Len(sided_orders) :
        /\ sided_grid.base_side = "BUY_ONLY" => sided_orders[oid].side # "SELL"
        /\ sided_grid.base_side = "SELL_ONLY" => sided_orders[oid].side # "BUY"

SidedNext ==
    \/ SidedStart
    \/ SidedFill

(***************************************************************************)
(* Strategy ids: several strategies started through one manager            *)
(***************************************************************************)

\* A second of the clock goes by.
RegTick ==
    /\ reg_clock < MaxClock
    /\ reg_clock' = reg_clock + 1
    /\ UNCHANGED <<reg_entries, reg_tasks>>
    /\ UNCHANGED <<ladder_pc, ladder_in, ladder_levels, ladder_counter, sidedVars>>
    /\ UNCHANGED <<ocoVars, twapVars, gridVars>>

\* A strategy is started: its id is built from int(time.time()), it is
\* stored in the registry under that id and its thread is started.
RegStart ==
    /\ Len(reg_tasks) < MaxStrategies
    /\ reg_entries' = [reg_entries EXCEPT ![reg_clock] = Len(reg_tasks) + 1]
    /\ reg_tasks' = Append(reg_tasks, [id |-> reg_clock, state |-> "running"])
    /\ UNCHANGED reg_clock
    /\ UNCHANGED <<ladder_pc, ladder_in, ladder_levels, ladder_counter, sidedVars>>
    /\ UNCHANGED <<ocoVars, twapVars, gridVars>>

\* The thread of a strategy leaves its loop: if its id is a key of the
\* registry the entry under it is deleted.
RegFinish ==
    /\ \E k \in 1 .. Len(reg_tasks) :
          /\ reg_tasks[k].state = "running"
          /\ reg_tasks' = [reg_tasks EXCEPT ![k].state = "done"]
          /\ reg_entries' = [reg_entries EXCEPT ![reg_tasks[k].id] = 0]
    /\ UNCHANGED reg_clock
    /\ UNCHANGED <<ladder_pc, ladder_in, ladder_levels, ladder_counter, sidedVars>>
    /\ UNCHANGED <<ocoVars, twapVars, gridVars>>

\* C34: the strategies started through one manager have distinct ids, and
\* every strategy whose task is running is the registry's entry under its
\* id: no later start has replaced it and no other task has deleted it.
C34_DistinctIds ==
    /\ \A j, k \in 1 .. Len(reg_tasks) :
          j # k => reg_tasks[j].id # reg_tasks[k].id
    /\ \A k \in 1 .. Len(reg_tasks) :
          reg_tasks[k].state = "running" => reg_entries[reg_tasks[k].id] = k

RegNext ==
    \/ RegTick
    \/ RegStart
    \/ RegFinish

(***************************************************************************)
(* Specifications                                                          *)
(***************************************************************************)

Init == OcoInit /\ TwapInit /\ GridInit /\ LadderInit

SpecOCO == Init /\ [][OcoNext]_vars

SpecTWAP == Init /\ [][TwapNext]_vars

SpecGrid == Init /\ [][GridNext]_vars

SpecLadder == Init /\ [][LadderNext]_vars

\* execute_grid_strategy with each base_side, and the fills that follow.
SpecBaseSide == Init /\ [][SidedNext]_vars

\* Strategies started one after another through one manager.
SpecRegistry == Init /\ [][RegNext]_vars

\* The three managers side by side.  They share no state, so a behaviour
\* exercises one of them: a manager moves while the others are as created.
ManagersNext ==
    \/ TwapInit /\ GridInit /\ OcoNext
    \/ OcoInit /\ GridInit /\ TwapNext
    \/ OcoInit /\ TwapInit /\ GridNext

SpecManagers == Init /\ [][ManagersNext]_vars

(***************************************************************************)
(* Properties of the three managers                                        *)
(***************************************************************************)

\* A step of cancel_oco_order made after an earlier call returned True.
OcoCancelRepeated == oco_cancel_acked /\ cancel_pc' # cancel_pc

\* A step of cancel_twap_order made after an earlier call returned True: the
\* executor's own steps all move twap_pc.
TwapCancelRepeated ==
    cancel_acked /\ twap_pc' = twap_pc /\ twap_cancel_result' # "none"

\* A step of stop_grid_strategy made after an earlier call returned True.
GridStopRepeated ==
    stop_acked /\ (stop_pc' # stop_pc \/ stop_idx' # stop_idx)

OcoStartRaised == oco_pc \in {"failed_limit", "failed_stop", "failed_start"}

\* execute_twap_order has raised to its caller.
TwapStartRaised == twap_pc \in {"rejected", "start_failed"}

\* execute_grid_strategy has raised to its caller.
GridStartRaised == grid_pc \in {"failed", "start_failed"}

\* C17: when a strategy start has raised an error to its caller, the
\* manager's registry holds no entry for the strategy and no monitoring or
\* execution thread runs for it.
C17_FailedStartNotRegistered ==
    /\ OcoStartRaised => ~monitoring_orders /\ mon_pc = "off"
    /\ TwapStartRaised => ~active_twap_orders
    /\ GridStartRaised => ~active_grids /\ gmon_pc = "off"

\* The grid monitor thread has returned.
GridMonitorTerminated == gmon_pc = "done"

\* The TWAP execution thread has returned.
TwapExecutorTerminated == twap_pc = "done"

\* C20: whenever the background task of a strategy has terminated (the OCO
\* monitor has left its loop, the Grid monitor or the TWAP executor has
\* returned), the status of the strategy is not ACTIVE.
C20_TerminatedTaskNotActive ==
    /\ MonitorTerminated =>
           oco_status \in {"LIMIT_FILLED", "STOP_FILLED", "CANCELLED"}
    /\ GridMonitorTerminated => grid_strategy.status = "STOPPED"
    /\ TwapExecutorTerminated =>
           twap_order.status \in {"COMPLETED", "CANCELLED"}

\* The TWAP executor has returned after chunks that were not filled, and
\* the order is marked COMPLETED.
C20_Witness ==
    /\ TwapExecutorTerminated
    /\ twap_order.executed_chunks < twap_order.num_chunks
    /\ twap_order.status = "COMPLETED"

\* C22: after a status poll that raised, the OCO monitor and the Grid monitor
\* are back at the top of their polling loop, not terminated, and the step
\* of the failed poll changed neither the status nor the registry.
C22_FailedPollRetries ==
    [][ /\ mon_poll_failed' => mon_pc' = "poll_limit"
        /\ (~mon_poll_failed /\ mon_poll_failed') =>
              /\ oco_status' = oco_status
              /\ monitoring_orders' = monitoring_orders
        /\ gmon_poll_failed' => gmon_pc' = "top"
        /\ (~gmon_poll_failed /\ gmon_poll_failed') =>
              /\ grid_strategy' = grid_strategy
              /\ active_grids' = active_grids
      ]_vars

\* The OCO monitor is about to poll again after a poll that raised, with
\* its strategy still ACTIVE and registered.
C22_Witness ==
    /\ mon_poll_failed
    /\ mon_pc = "poll_limit"
    /\ oco_status = "ACTIVE"
    /\ monitoring_orders
    /\ ex_limit = "FILLED"


\* The monitor thread exists and has not ended.
GridMonitorRunning == gmon_pc \notin {"off", "done"}

\* The monitor begins a polling pass.
GridPassBegins == gmon_pc = "top" /\ gmon_pc' = "buy"

\* The monitor thread has moved.
GridMonitorMoved == gmon_pc' # gmon_pc \/ gmon_idx' # gmon_idx

\* How far the monitor is from the end of its thread once no pass can
\* begin: the entries of the current pass still to be looked at (a dict has
\* at most grid_count keys), counted twice because a FILLED order takes a
\* poll and a handler call.
MonitorRank ==
    LET n == grid_strategy.grid_count
    IN CASE gmon_pc = "top" -> 1
         [] gmon_pc = "sell" -> 3 + 2 * (n + 1 - gmon_idx)
         [] gmon_pc = "handle_sell" -> 2 + 2 * (n + 1 - gmon_idx)
         [] gmon_pc = "buy" -> (2 * n + 6) + 2 * (n + 1 - gmon_idx)
         [] gmon_pc = "handle_buy" -> (2 * n + 5) + 2 * (n + 1 - gmon_idx)
         [] OTHER -> 0

\* C29: once the status is STOPPED the monitor begins no polling pass; at
\* its loop test and at every entry of the pass it was in it has a step to
\* take, every step it takes brings it nearer to the end of that pass, and
\* at the loop test its step ends the thread.
C29_StopWithinOnePass ==
    [][ /\ grid_strategy.status = "STOPPED" => ~GridPassBegins
        /\ (grid_strategy.status = "STOPPED" /\ GridMonitorMoved) =>
              /\ MonitorRank' < MonitorRank
              /\ MonitorRank' >= 0
        /\ (GridMonitorRunning /\ gmon_pc = "top"
                /\ grid_strategy.status = "STOPPED" /\ GridMonitorMoved) =>
              gmon_pc' = "done"
        /\ (grid_strategy.status = "STOPPED" /\ gmon_pc \in {"top", "buy", "sell"}) =>
              ENABLED GridLoopStep
      ]_vars

\* The status has become STOPPED while the monitor is inside a pass with a
\* fill still to handle.
C29_Witness ==
    /\ grid_strategy.status = "STOPPED"
    /\ gmon_pc \in {"handle_buy", "handle_sell"}
    /\ stop_result = "true"


\* The order is among the entries the monitor polls.
Polled(oid) ==
    \/ \E i \in 1 .. Len(grid_strategy.buy_orders) :
          grid_strategy.buy_orders[i].order_id = oid
    \/ \E i \in 1 .. Len(grid_strategy.sell_orders) :
          grid_strategy.sell_orders[i].order_id = oid

\* The fill of the order is in executed_trades.
Recorded(oid) ==
    \E i \in 1 .. Len(grid_strategy.executed_trades) :
        grid_strategy.executed_trades[i].order_id = oid

\* C30: while the strategy is ACTIVE, every order it placed that is open or
\* filled on the exchange is either recorded in executed_trades or still
\* among the entries the monitor polls, so that its fill can be recorded.
C30_PlacedOrderStaysPolled ==
    grid_strategy.status = "ACTIVE" =>
        \A oid \in 1 .. Len(ex_orders) :
            ex_orders[oid].status \in {"NEW", "FILLED"} =>
                Polled(oid) \/ Recorded(oid)


\* A stop_grid_strategy call has moved.
StopMoved == stop_pc' # stop_pc \/ stop_idx' # stop_idx

\* C31: no step of stop_grid_strategy changes executed_trades, total_profit
\* or the registry; the status of an existing strategy changes only from
\* ACTIVE to STOPPED, in the step of a stop call that returns True; and a
\* STOPPED strategy stays registered.
C31_StopKeepsHistory ==
    [][ /\ StopMoved =>
              /\ grid_strategy'.executed_trades = grid_strategy.executed_trades
              /\ grid_strategy'.total_profit = grid_strategy.total_profit
              /\ active_grids' = active_grids
        /\ (grid_strategy.status # "NONE"
                /\ grid_strategy'.status # grid_strategy.status) =>
              /\ grid_strategy.status = "ACTIVE"
              /\ grid_strategy'.status = "STOPPED"
              /\ stop_pc = "sell" /\ stop_pc' = "returned"
              /\ stop_result' = "true"
        /\ grid_strategy'.status = "STOPPED" => active_grids'
      ]_vars

\* A strategy with a recorded trade has been stopped and is still listed.
C31_Witness ==
    /\ grid_strategy.status = "STOPPED"
    /\ stop_result = "true"
    /\ active_grids
    /\ Len(grid_strategy.executed_trades) > 0


\* The monitor is at an entry it is going to poll.
AtPolledEntry ==
    /\ gmon_pc \in {"buy", "sell"}
    /\ gmon_idx <= Len(MonitoredOrders)
    /\ MonitoredOrders[gmon_idx].status # "FILLED"

\* C38: executed_trades holds no two records of the same order, and an
\* order whose fill is recorded is neither polled nor handled again.
C38_NoFillRecordedTwice ==
    [][ /\ \A i, j \in 1 .. Len(grid_strategy'.executed_trades) :
              i # j => grid_strategy'.executed_trades[i].order_id
                          # grid_strategy'.executed_trades[j].order_id
        /\ (AtPolledEntry /\ GridMonitorMoved) =>
              ~Recorded(MonitoredOrders[gmon_idx].order_id)
        /\ gmon_pc \in {"handle_buy", "handle_sell"} =>
              ~Recorded(order_status.order_id)
      ]_vars

\* In a pass after the one that recorded its fill, the monitor has gone
\* past the first BUY entry, marked FILLED, and a later fill of another
\* order is recorded as well.
C38_Witness ==
    /\ gmon_pc = "buy"
    /\ gmon_idx = 2
    /\ Len(grid_strategy.buy_orders) >= 1
    /\ grid_strategy.buy_orders[1].status = "FILLED"
    /\ Len(grid_strategy.executed_trades) >= 2
    /\ grid_strategy.executed_trades[1].order_id
           = grid_strategy.buy_orders[1].order_id
    /\ grid_strategy.executed_trades[2].side = "SELL"


\* A stop_grid_strategy call on a registered grid returns.
StopReturns == stop_pc \in {"buy", "sell"} /\ stop_pc' = "returned"

\* C39: a stop_grid_strategy call on a registered grid returns True with
\* the status set to STOPPED, whatever the monitor thread does meanwhile.
C39_StopAlwaysCompletes ==
    [][ StopReturns =>
            /\ stop_result' = "true"
            /\ grid_strategy'.status = "STOPPED"
      ]_vars

====
